---- MODULE Spec2Model ----
(***************************************************************************)
(* A model of fylins, a terminal directory browser (src/src/app.rs and     *)
(* src/src/main.rs).  The state is the App struct plus the filesystem it   *)
(* browses; one key event is one step.                                     *)
(*                                                                         *)
(* Conventions.  A string is a sequence of one-character strings, a path   *)
(* is a sequence of names (the root directory is the empty path), and an   *)
(* Option is a sequence of length 0 (None) or 1 (Some).  Indices into      *)
(* all_entries and filtered_indices are 0-based as in the source.          *)
(***************************************************************************)
EXTENDS Integers, Sequences, FiniteSets, TLC

\* ------------------------------------------------------------------ bounds

\* Number of key presses along one run of the event loop.
MaxKeys == 7
\* Latest filesystem call of one mutating operation that may fail.
FailPoints == 2
\* The longest output of git the merge of statuses is run on.
MaxLines == 3
\* The most non-text bytes at the head of a buffer handed to is_text.
MaxNonText == 27
\* The longest PNG, GIF or BMP header handed to a parser.
MaxHeader == 32
\* The most bytes cut from the end of a JPEG buffer.
MaxCut == 9
MaxTokens == 3

\* ----------------------------------------------------------------- options

None == <<>>
Some(x) == <<x>>
IsSome(o) == o # <<>>
Unwrap(o) == o[1]

\* A local binding (let v = ...; body): Body of the value v.
Bind(v, Body(_)) == Body(v)

\* ----------------------------------------------------------------- strings

\* Byte values of the characters the model uses (ASCII).
Code ==
    (" " :> 32) @@ ("." :> 46) @@ ("/" :> 47) @@ ("0" :> 48) @@ ("1" :> 49)
    @@ ("2" :> 50) @@ ("3" :> 51) @@ ("4" :> 52) @@ ("5" :> 53) @@ ("6" :> 54)
    @@ ("7" :> 55) @@ ("8" :> 56) @@ ("9" :> 57) @@ ("A" :> 65) @@ ("B" :> 66)
    @@ ("D" :> 68) @@ ("S" :> 83) @@ ("_" :> 95) @@ ("a" :> 97) @@ ("b" :> 98)
    @@ ("d" :> 100) @@ ("h" :> 104) @@ ("s" :> 115) @@ ("t" :> 116)

\* char::to_lowercase on the ASCII letters of the model.
LowerChar(c) ==
    CASE c = "A" -> "a"
      [] c = "B" -> "b"
      [] c = "D" -> "d"
      [] c = "G" -> "g"
      [] c = "N" -> "n"
      [] c = "P" -> "p"
      [] c = "T" -> "t"
      [] c = "S" -> "s"
      [] OTHER -> c

\* str::to_lowercase
to_lowercase(s) == [i \in 1..Len(s) |-> LowerChar(s[i])]

\* Ord::cmp on strings, as byte-wise lexicographic order: a < b.
RECURSIVE StrLess(_, _)
StrLess(a, b) ==
    IF b = <<>> THEN FALSE
    ELSE IF a = <<>> THEN TRUE
    ELSE IF Code[Head(a)] # Code[Head(b)] THEN Code[Head(a)] < Code[Head(b)]
    ELSE StrLess(Tail(a), Tail(b))

\* str::contains(needle)
contains(hay, needle) ==
    \E i \in 1..(Len(hay) - Len(needle) + 1) :
        SubSeq(hay, i, i + Len(needle) - 1) = needle

\* str::starts_with for strings, Path::starts_with for paths (whole components).
starts_with(s, prefix) ==
    /\ Len(prefix) <= Len(s)
    /\ SubSeq(s, 1, Len(prefix)) = prefix

\* Decimal rendering of a natural number, as format!("{}", counter).
Digit(d) == <<"0", "1", "2", "3", "4", "5", "6", "7", "8", "9">>[d + 1]
RECURSIVE ToDecimal(_)
ToDecimal(n) ==
    IF n < 10 THEN <<Digit(n)>> ELSE ToDecimal(n \div 10) \o <<Digit(n % 10)>>

\* ------------------------------------------------------------------- paths

DotDot == <<".", ".">>

\* Path::parent: None for the root directory.
parent(p) == IF p = <<>> THEN None ELSE Some(SubSeq(p, 1, Len(p) - 1))

\* Path::join with a single file name.
join(p, name) == Append(p, name)

\* Path::file_name
file_name(p) == IF p = <<>> THEN None ELSE Some(p[Len(p)])

\* Position of the last "." of a name, 0 when there is none.
LastDot(n) ==
    IF \E i \in 1..Len(n) : n[i] = "."
    THEN CHOOSE i \in 1..Len(n) : n[i] = "." /\ \A j \in (i+1)..Len(n) : n[j] # "."
    ELSE 0

\* Path::file_stem of a file name: the name up to its last ".", the whole name
\* when that "." is its first character or it has none, or it is "..".
file_stem(n) ==
    IF n = DotDot \/ LastDot(n) <= 1 THEN n ELSE SubSeq(n, 1, LastDot(n) - 1)

\* Path::extension of a file name: the part after the last ".", None when
\* file_stem is the whole name.
extension(n) ==
    IF n = DotDot \/ LastDot(n) <= 1 THEN None
    ELSE Some(SubSeq(n, LastDot(n) + 1, Len(n)))

\* -------------------------------------------------------------- filesystem
\* fs maps every existing path to its node; a node's parent exists and is a
\* directory.  A file carries its bytes.

DirNode == [is_dir |-> TRUE, data |-> <<>>]
FileNode(bytes) == [is_dir |-> FALSE, data |-> bytes]

exists(fs, p) == p \in DOMAIN fs
is_dir(fs, p) == p \in DOMAIN fs /\ fs[p].is_dir

\* The names listed by fs::read_dir(p).
ChildNames(fs, p) ==
    {q[Len(q)] : q \in {r \in DOMAIN fs : Len(r) = Len(p) + 1 /\ starts_with(r, p)}}

\* The paths at or beneath p.
Subtree(fs, p) == {q \in DOMAIN fs : starts_with(q, p)}

\* fs with the paths in S removed.
Without(fs, S) == [q \in (DOMAIN fs) \ S |-> fs[q]]

\* fs with the subtree at src re-rooted at dst (src itself kept).
Rerooted(fs, src, dst) ==
    [q \in {dst \o SubSeq(r, Len(src) + 1, Len(r)) : r \in Subtree(fs, src)} |->
        fs[src \o SubSeq(q, Len(dst) + 1, Len(q))]]

\* ------------------------------------------------------------- collaborators
\* What one key event draws from outside the program:
\*   read   fs::read_dir of the current directory succeeds (refresh)
\*   desc   fs::read_dir yields the names in descending (else ascending) byte order
\*   canon  Path::canonicalize succeeds
\*   fail   which filesystem call of a mutating operation fails, counted from 1
\*          in the order the operation makes them; 0 when none fails
\*   pv     the reads made for the preview succeed

IOs ==
    [read : BOOLEAN, desc : BOOLEAN, canon : BOOLEAN, fail : 0..FailPoints,
     pv : BOOLEAN]

\* The collaborators all succeeding; actions override the fields they draw.
IoOk ==
    [read |-> TRUE, desc |-> FALSE, canon |-> TRUE, fail |-> 0, pv |-> TRUE]

\* git_status_priority
git_status_priority(status) ==
    CASE status = "Conflict" -> 5
      [] status = "Modified" -> 4
      [] status = "Staged" -> 3
      [] status = "Untracked" -> 2
      [] status = "Ignored" -> 1

\* A merge in which the status read last replaces the one recorded.
MergeStatusLastWins(statuses, entry_key, status) ==
    IF entry_key \in DOMAIN statuses THEN [statuses EXCEPT ![entry_key] = status]
    ELSE statuses @@ (entry_key :> status)

\* statuses.entry(entry_key).and_modify(..).or_insert(status)
MergeStatus(statuses, entry_key, status) ==
    IF entry_key \in DOMAIN statuses
    THEN IF git_status_priority(status) > git_status_priority(statuses[entry_key])
         THEN [statuses EXCEPT ![entry_key] = status]
         ELSE statuses
    ELSE statuses @@ (entry_key :> status)

\* The loop of get_git_status over the status lines git printed, each line
\* already reduced to the top-level name it falls under and its GitStatus.
RECURSIVE CollectStatuses(_, _)
CollectStatuses(statuses, lines) ==
    IF lines = <<>> THEN statuses
    ELSE CollectStatuses(MergeStatus(statuses, Head(lines).entry_key, Head(lines).status),
                         Tail(lines))

StatusLine(entry_key, status) == [entry_key |-> entry_key, status |-> status]

\* str::trim, of the spaces
RECURSIVE trim_start(_)
trim_start(s) == IF s # <<>> /\ Head(s) = " " THEN trim_start(Tail(s)) ELSE s

RECURSIVE trim_end(_)
trim_end(s) ==
    IF s # <<>> /\ s[Len(s)] = " " THEN trim_end(SubSeq(s, 1, Len(s) - 1)) ELSE s

trim(s) == trim_end(trim_start(s))

\* str::find(needle): the 0-based index of the first occurrence, as an Option.
find(hay, needle) ==
    Bind({i \in 1..(Len(hay) - Len(needle) + 1) :
              SubSeq(hay, i, i + Len(needle) - 1) = needle},
         LAMBDA hits : IF hits = {} THEN None
                       ELSE Some((CHOOSE i \in hits : \A j \in hits : i <= j) - 1))

\* std::path::MAIN_SEPARATOR on the platform modelled
MAIN_SEPARATOR == "/"

\* str::replace of one character
replace(s, from, to) == [i \in 1..Len(s) |-> IF s[i] = from THEN to ELSE s[i]]

\* The status of a two-character code, None where the match falls through to
\* `continue`.
StatusOf(s) ==
    CASE s = <<"?", "?">> -> Some("Untracked")
      [] s = <<"!", "!">> -> Some("Ignored")
      [] s \in {<<"U", "U">>, <<"A", "A">>, <<"D", "D">>} -> Some("Conflict")
      [] OTHER ->
           IF s[1] \in {"A", "M", "D", "R"}
           THEN IF s[2] = " " THEN Some("Staged") ELSE Some("Modified")
           ELSE IF s[2] \in {"M", "D"} THEN Some("Modified")
           ELSE None

\* The path of a status line: what follows "->" when there is an arrow with
\* something behind it.
FilePath(rest) ==
    Bind(trim(rest), LAMBDA file_path :
        Bind(find(file_path, <<"-", ">">>), LAMBDA pos :
            IF ~IsSome(pos) THEN file_path
            ELSE Bind(trim(SubSeq(file_path, Unwrap(pos) + 3, Len(file_path))),
                      LAMBDA new_path : IF new_path # <<>> THEN new_path ELSE file_path)))

\* The path made relative to the scanned directory: the prefix and a
\* separator are stripped where the path starts with them.
RelativeFilePath(normalized_path, relative_prefix) ==
    IF ~IsSome(relative_prefix) THEN normalized_path
    ELSE Bind(IF Unwrap(relative_prefix) = <<>> THEN <<>>
              ELSE Unwrap(relative_prefix) \o <<MAIN_SEPARATOR>>,
              LAMBDA prefix_with_sep :
                  IF starts_with(normalized_path, prefix_with_sep)
                  THEN SubSeq(normalized_path, Len(prefix_with_sep) + 1,
                              Len(normalized_path))
                  ELSE normalized_path)

\* Path::components().next() when it is a Normal component.
EntryKey(relative_file_path) ==
    Bind(find(relative_file_path, <<MAIN_SEPARATOR>>), LAMBDA pos :
        Bind(IF IsSome(pos) THEN SubSeq(relative_file_path, 1, Unwrap(pos))
             ELSE relative_file_path,
             LAMBDA first :
                 IF first \in {<<>>, <<".">>, <<".", ".">>} THEN None ELSE Some(first)))

\* The body of the loop of get_git_status up to the merge: the key and the
\* status one line stands for, None where the line is passed over.
ReduceLine(line, relative_prefix) ==
    IF Len(line) < 4 THEN None
    ELSE Bind(EntryKey(RelativeFilePath(
                  replace(FilePath(SubSeq(line, 4, Len(line))), "/", MAIN_SEPARATOR),
                  relative_prefix)),
              LAMBDA entry_key :
                  Bind(StatusOf(SubSeq(line, 1, 2)), LAMBDA status :
                      IF IsSome(entry_key) /\ IsSome(status)
                      THEN Some(StatusLine(Unwrap(entry_key), Unwrap(status)))
                      ELSE None))

RECURSIVE ReducedLines(_, _)
ReducedLines(lines, relative_prefix) ==
    IF lines = <<>> THEN <<>>
    ELSE ReduceLine(Head(lines), relative_prefix)
         \o ReducedLines(Tail(lines), relative_prefix)

\* The git collaborator is a black box: here the directory D is the root of a
\* repository with one untracked file B and three changed files beneath s, and
\* no directory outside D is under version control.
\* `git rev-parse --show-toplevel` run in dir, None when it fails.
git_rev_parse(dir) == IF starts_with(dir, <<<<"D">>>>) THEN Some(<<<<"D">>>>) ELSE None

\* What `git status --porcelain -uall` prints, in dir as in any directory of
\* the repository.
git_status_porcelain(dir) ==
    IF IsSome(git_rev_parse(dir))
    THEN << <<"?", "?", " ", "B">>,
            <<"?", "?", " ", "s", "/", "a">>,
            <<" ", "D", " ", "s", "/", "b">>,
            <<"D", " ", " ", "s", "/", "d">> >>
    ELSE <<>>

\* The directory as a string relative to the repository root, None at the root.
RECURSIVE JoinComponents(_)
JoinComponents(path) ==
    IF Len(path) = 1 THEN path[1]
    ELSE path[1] \o <<MAIN_SEPARATOR>> \o JoinComponents(Tail(path))

RelativePrefix(dir, git_root) ==
    IF ~starts_with(dir, git_root) \/ dir = git_root THEN None
    ELSE Some(JoinComponents(SubSeq(dir, Len(git_root) + 1, Len(dir))))

\* The lines of git in dir, each reduced to its key and status.
git_status_lines(dir) ==
    IF ~IsSome(git_rev_parse(dir)) THEN <<>>
    ELSE ReducedLines(git_status_porcelain(dir),
                      RelativePrefix(dir, Unwrap(git_rev_parse(dir))))

\* The status map get_git_status returns for dir.
get_git_status(dir) == CollectStatuses(<<>>, git_status_lines(dir))

\* HashMap::get
MapGet(m, k) == IF k \in DOMAIN m THEN Some(m[k]) ELSE None

\* ------------------------------------------------------------------ entries

is_hidden_file(name) == starts_with(name, <<".">>) /\ name # DotDot

ParentEntry ==
    [name |-> DotDot, name_lower |-> DotDot, is_dir |-> TRUE, size |-> 0,
     is_hidden |-> FALSE, readonly |-> FALSE, git_status |-> None]

\* The Entry built for one directory child (the closure of refresh).
MakeEntry(fs, dir, name, statuses) ==
    [name |-> name, name_lower |-> to_lowercase(name),
     is_dir |-> fs[join(dir, name)].is_dir,
     size |-> Len(fs[join(dir, name)].data),
     is_hidden |-> is_hidden_file(name), readonly |-> FALSE,
     git_status |-> MapGet(statuses, name)]

\* A comparator on the names as spelled, without case folding.
entry_less_raw(a, b) ==
    IF a.is_dir /\ ~b.is_dir THEN TRUE
    ELSE IF ~a.is_dir /\ b.is_dir THEN FALSE
    ELSE StrLess(a.name, b.name)

\* The comparator of the sort_by calls: TRUE iff a orders strictly before b.
\* a and b are records with is_dir and name_lower.
entry_less(a, b) ==
    IF a.is_dir /\ ~b.is_dir THEN TRUE
    ELSE IF ~a.is_dir /\ b.is_dir THEN FALSE
    ELSE StrLess(a.name_lower, b.name_lower)

\* slice::sort_by (a stable sort), as an insertion sort under entry_less.
RECURSIVE InsertSorted(_, _)
InsertSorted(sorted, e) ==
    IF sorted = <<>> THEN <<e>>
    ELSE IF entry_less(e, Head(sorted)) THEN <<e>> \o sorted
    ELSE <<Head(sorted)>> \o InsertSorted(Tail(sorted), e)

RECURSIVE sort_by(_)
sort_by(items) ==
    IF items = <<>> THEN <<>>
    ELSE InsertSorted(sort_by(SubSeq(items, 1, Len(items) - 1)), items[Len(items)])

\* The names of a set in ascending byte order.
RECURSIVE Ascending(_)
Ascending(S) ==
    IF S = {} THEN <<>>
    ELSE Bind(CHOOSE x \in S : \A y \in S \ {x} : StrLess(x, y),
              LAMBDA m : <<m>> \o Ascending(S \ {m}))

Reverse(q) == [i \in 1..Len(q) |-> q[Len(q) + 1 - i]]

\* The order in which fs::read_dir yields the children of p.
read_dir(fs, p, desc) ==
    Bind(Ascending(ChildNames(fs, p)), LAMBDA names : IF desc THEN Reverse(names) ELSE names)

\* ------------------------------------------------------------ filter, refresh

\* The closure of apply_filter's filter call: is entry e kept?
FilterKeeps(e, query, show_hidden, mode) ==
    IF e.name = DotDot THEN TRUE
    ELSE IF ~show_hidden /\ e.is_hidden THEN FALSE
    ELSE IF mode = "Search" /\ query # <<>> THEN contains(e.name_lower, query)
    ELSE TRUE

\* The 0-based indices, ascending, of the entries the filter keeps.
RECURSIVE FilterFrom(_, _, _, _, _)
FilterFrom(entries, i, query, show_hidden, mode) ==
    IF i > Len(entries) THEN <<>>
    ELSE (IF FilterKeeps(entries[i], query, show_hidden, mode) THEN <<i - 1>> ELSE <<>>)
         \o FilterFrom(entries, i + 1, query, show_hidden, mode)

\* A repair that clamps an out-of-range selection to the last visible entry.
RepairSelectionClamped(selected, n) ==
    IF IsSome(selected)
    THEN (IF Unwrap(selected) >= n THEN (IF n = 0 THEN None ELSE Some(n - 1)) ELSE selected)
    ELSE (IF n # 0 THEN Some(0) ELSE selected)

\* The selection left by apply_filter for a visible list of n entries.
RepairSelection(selected, n) ==
    IF IsSome(selected)
    THEN (IF Unwrap(selected) >= n THEN (IF n = 0 THEN None ELSE Some(0)) ELSE selected)
    ELSE (IF n # 0 THEN Some(0) ELSE selected)

apply_filter(s) ==
    Bind(FilterFrom(s.all_entries, 1, to_lowercase(s.input), s.show_hidden, s.mode),
         LAMBDA fi : [s EXCEPT !.filtered_indices = fi,
                               !.selected = RepairSelection(s.selected, Len(fi))])

\* A file operation that keeps the cached git statuses.
invalidate_git_cache_skipped(s) == s

invalidate_git_cache(s) == [s EXCEPT !.git_cache_dir = None]

\* Does the fs::read_dir of refresh succeed?
RefreshOk(s, io) == io.read /\ is_dir(s.fs, s.current_dir)

\* The entries refresh collects from read_dir, sorted.
Scanned(fs, dir, names, statuses) ==
    sort_by([i \in 1..Len(names) |-> MakeEntry(fs, dir, names[i], statuses)])

\* refresh up to its read_dir call: the list is cleared, the git statuses are
\* fetched on a cache miss, ".." is pushed.
RefreshStart(s) ==
    IF s.git_cache_dir # Some(s.current_dir)
    THEN [s EXCEPT !.git_statuses = get_git_status(s.current_dir),
                   !.git_output = git_status_lines(s.current_dir),
                   !.git_cache_dir = Some(s.current_dir),
                   !.git_called = TRUE,
                   !.all_entries =
                       IF IsSome(parent(s.current_dir)) THEN <<ParentEntry>> ELSE <<>>]
    ELSE [s EXCEPT !.all_entries =
                       IF IsSome(parent(s.current_dir)) THEN <<ParentEntry>> ELSE <<>>]

\* refresh; when read_dir fails it returns early (RefreshOk tells).
refresh(s, io) ==
    Bind(RefreshStart(s), LAMBDA s1 :
        IF ~RefreshOk(s, io) THEN s1
        ELSE apply_filter(
                [s1 EXCEPT !.all_entries =
                    s1.all_entries \o Scanned(s.fs, s.current_dir,
                                              read_dir(s.fs, s.current_dir, io.desc),
                                              s1.git_statuses)]))

selected_entry(s) ==
    IF IsSome(s.selected) /\ Unwrap(s.selected) < Len(s.filtered_indices)
       /\ s.filtered_indices[Unwrap(s.selected) + 1] < Len(s.all_entries)
    THEN Some(s.all_entries[s.filtered_indices[Unwrap(s.selected) + 1] + 1])
    ELSE None

\* selected_path for the selected entry e (an Option).
PathOf(s, e) ==
    IF ~IsSome(e) THEN None
    ELSE IF Unwrap(e).name = DotDot THEN Some(Unwrap(parent(s.current_dir)))
    ELSE Some(join(s.current_dir, Unwrap(e).name))

selected_path(s) == PathOf(s, selected_entry(s))

\* ------------------------------------------------------------------ preview

MAX_PREVIEW == 16384

\* Vec::truncate / Iterator::take
Take(q, n) == SubSeq(q, 1, IF Len(q) < n THEN Len(q) ELSE n)

\* A read into a zeroed buffer of n bytes.
ZeroPadded(bytes, n) == [i \in 1..n |-> IF i <= Len(bytes) THEN bytes[i] ELSE 0]

NonTextByte(b) == b < 9 \/ (b > 13 /\ b < 32 /\ b # 27)

\* The number of non-text bytes among sample.
NonTextCount(sample) == Cardinality({i \in 1..Len(sample) : NonTextByte(sample[i])})

\* A classifier that counts the non-text bytes of the whole buffer.
is_text_unsampled(data) ==
    IF data = <<>> THEN TRUE
    ELSE (NonTextCount(data) * 100) \div (IF Len(data) < 512 THEN Len(data) ELSE 512) < 5

is_text(data) ==
    IF data = <<>> THEN TRUE
    ELSE (NonTextCount(Take(data, 512)) * 100) \div (IF Len(data) < 512 THEN Len(data) ELSE 512)
         < 5

\* String::from_utf8 succeeds: ASCII bytes and well-formed two-byte sequences,
\* that is, every lead byte is followed by a continuation byte and every
\* continuation byte follows a lead byte.
Utf8Lead(b) == b >= 194 /\ b <= 223
Utf8Continuation(b) == b >= 128 /\ b <= 191

Utf8Valid(bytes) ==
    \A i \in 1..Len(bytes) :
        \/ bytes[i] < 128
        \/ Utf8Lead(bytes[i]) /\ i < Len(bytes) /\ Utf8Continuation(bytes[i + 1])
        \/ Utf8Continuation(bytes[i]) /\ i > 1 /\ Utf8Lead(bytes[i - 1])

\* What stands for a byte read outside its slice (in the program a panic):
\* no byte, and no number made of bytes one of which is it, is a u16.
OutOfBounds == -70000

\* data[i] of a 0-based slice index.
At(data, i) == IF i < Len(data) THEN data[i + 1] ELSE OutOfBounds

from_be_bytes16(a, b) == a * 256 + b
from_le_bytes16(a, b) == b * 256 + a

\* A u32 as its two 16-bit halves.
U32(hi, lo) == [hi |-> hi, lo |-> lo]

\* u16 as u32
AsU32(v) == U32(0, v)

from_be_bytes32(a, b, c, d) == U32(a * 256 + b, c * 256 + d)
from_le_bytes32(a, b, c, d) == U32(d * 256 + c, b * 256 + a)

\* u32::abs_diff(0): the distance of an unsigned number from 0 is the number.
abs_diff_0(v) == v

Dimensions(w, h, f) == [width |-> w, height |-> h, format |-> f]

PngSignature == <<137, 80, 78, 71, 13, 10, 26, 10>>

\* A parser that reads the two fields of a PNG header in little-endian order.
parse_png_little_endian(header) ==
    IF Len(header) >= 24 /\ SubSeq(header, 1, 8) = PngSignature
    THEN Dimensions(
            from_le_bytes32(At(header, 16), At(header, 17), At(header, 18), At(header, 19)),
            from_le_bytes32(At(header, 20), At(header, 21), At(header, 22), At(header, 23)),
            "PNG")
    ELSE Dimensions(AsU32(0), AsU32(0), "PNG")

parse_png_dimensions(header) ==
    IF Len(header) >= 24 /\ SubSeq(header, 1, 8) = PngSignature
    THEN Dimensions(
            from_be_bytes32(At(header, 16), At(header, 17), At(header, 18), At(header, 19)),
            from_be_bytes32(At(header, 20), At(header, 21), At(header, 22), At(header, 23)),
            "PNG")
    ELSE Dimensions(AsU32(0), AsU32(0), "PNG")

\* A scan that looks for a frame header byte by byte and skips no segment.
RECURSIVE JpegScanBytewise(_, _)
JpegScanBytewise(data, i) ==
    IF ~(i + 4 < Len(data)) THEN Dimensions(AsU32(0), AsU32(0), "JPEG")
    ELSE IF data[i + 1] = 255 /\ (data[i + 2] = 192 \/ data[i + 2] = 194)
            /\ i + 9 < Len(data)
    THEN Dimensions(AsU32(data[i + 8] * 256 + data[i + 9]),
                    AsU32(data[i + 6] * 256 + data[i + 7]), "JPEG")
    ELSE JpegScanBytewise(data, i + 1)

\* What one iteration of the while loop does at scan index i: the indices of
\* data it reads, the scan index it continues with (None when it leaves the
\* loop) and the value it returns (None when it does not return).
JpegIteration(reads, next, ret) == [reads |-> reads, next |-> next, ret |-> ret]

\* An iteration that takes every FF C0 / FF C2 marker for a frame header.
JpegStepUnguarded(data, i) ==
    IF At(data, i) # 255 THEN JpegIteration({i}, Some(i + 1), None)
    ELSE IF At(data, i + 1) = 192 \/ At(data, i + 1) = 194
    THEN JpegIteration({i, i + 1, i + 5, i + 6, i + 7, i + 8}, None,
                       Some(Dimensions(AsU32(from_be_bytes16(At(data, i + 7), At(data, i + 8))),
                                       AsU32(from_be_bytes16(At(data, i + 5), At(data, i + 6))),
                                       "JPEG")))
    ELSE JpegIteration({i, i + 1, i + 2, i + 3},
                       Some(i + 2 + from_be_bytes16(At(data, i + 2), At(data, i + 3))), None)

JpegStep(data, i) ==
    IF At(data, i) # 255 THEN JpegIteration({i}, Some(i + 1), None)
    ELSE IF (At(data, i + 1) = 192 \/ At(data, i + 1) = 194) /\ i + 9 < Len(data)
    THEN JpegIteration({i, i + 1, i + 5, i + 6, i + 7, i + 8}, None,
                       Some(Dimensions(AsU32(from_be_bytes16(At(data, i + 7), At(data, i + 8))),
                                       AsU32(from_be_bytes16(At(data, i + 5), At(data, i + 6))),
                                       "JPEG")))
    ELSE IF i + 3 < Len(data)
    THEN JpegIteration({i, i + 1, i + 2, i + 3},
                       Some(i + 2 + from_be_bytes16(At(data, i + 2), At(data, i + 3))), None)
    ELSE JpegIteration({i, i + 1}, None, None)

\* The while loop of parse_jpeg_dimensions from scan index i.
RECURSIVE JpegScan(_, _)
JpegScan(data, i) ==
    IF ~(i + 4 < Len(data)) THEN Dimensions(AsU32(0), AsU32(0), "JPEG")
    ELSE Bind(JpegStep(data, i), LAMBDA it :
             IF IsSome(it.ret) THEN Unwrap(it.ret)
             ELSE IF IsSome(it.next) THEN JpegScan(data, Unwrap(it.next))
             ELSE Dimensions(AsU32(0), AsU32(0), "JPEG"))

parse_jpeg_dimensions(data) ==
    IF Len(data) < 2 \/ At(data, 0) # 255 \/ At(data, 1) # 216
    THEN Dimensions(AsU32(0), AsU32(0), "JPEG")
    ELSE JpegScan(data, 2)

\* A parser that takes the height of a GIF from offset 6 and the width from
\* offset 8.
parse_gif_swapped(header) ==
    IF Len(header) >= 10 /\ SubSeq(header, 1, 3) = <<71, 73, 70>>
    THEN Dimensions(AsU32(from_le_bytes16(At(header, 8), At(header, 9))),
                    AsU32(from_le_bytes16(At(header, 6), At(header, 7))), "GIF")
    ELSE Dimensions(AsU32(0), AsU32(0), "GIF")

parse_gif_dimensions(header) ==
    IF Len(header) >= 10 /\ SubSeq(header, 1, 3) = <<71, 73, 70>>
    THEN Dimensions(AsU32(from_le_bytes16(At(header, 6), At(header, 7))),
                    AsU32(from_le_bytes16(At(header, 8), At(header, 9))), "GIF")
    ELSE Dimensions(AsU32(0), AsU32(0), "GIF")

\* A parser that asks for the 22 bytes up to the height only.
parse_bmp_short_check(header) ==
    IF Len(header) >= 22 /\ SubSeq(header, 1, 2) = <<66, 77>>
    THEN Dimensions(
            from_le_bytes32(At(header, 18), At(header, 19), At(header, 20), At(header, 21)),
            abs_diff_0(from_le_bytes32(At(header, 22), At(header, 23), At(header, 24),
                                       At(header, 25))),
            "BMP")
    ELSE Dimensions(AsU32(0), AsU32(0), "BMP")

parse_bmp_dimensions(header) ==
    IF Len(header) >= 26 /\ SubSeq(header, 1, 2) = <<66, 77>>
    THEN Dimensions(
            from_le_bytes32(At(header, 18), At(header, 19), At(header, 20), At(header, 21)),
            abs_diff_0(from_le_bytes32(At(header, 22), At(header, 23), At(header, 24),
                                       At(header, 25))),
            "BMP")
    ELSE Dimensions(AsU32(0), AsU32(0), "BMP")

\* Extensions are matched as lowercased strings.
ExtPng == <<"p", "n", "g">>
ExtJpg == <<"j", "p", "g">>
ExtJpeg == <<"j", "p", "e", "g">>
ExtGif == <<"g", "i", "f">>
ExtBmp == <<"b", "m", "p">>
ExtIco == <<"i", "c", "o">>
ExtWebp == <<"w", "e", "b", "p">>
ImageExtensions == {ExtPng, ExtJpg, ExtJpeg, ExtGif, ExtBmp, ExtIco, ExtWebp}

PreviewNone == [kind |-> "None"]
PreviewError(msg) == [kind |-> "Error", message |-> msg]

\* Can path be opened and read as a file?
CanOpen(fs, path, io) == io.pv /\ exists(fs, path) /\ ~fs[path].is_dir

\* The match of load_image_preview on the extension.
ImageDimensions(data, ext) ==
    CASE ext = ExtPng -> parse_png_dimensions(ZeroPadded(Take(data, 32), 32))
      [] ext \in {ExtJpg, ExtJpeg} -> parse_jpeg_dimensions(ZeroPadded(Take(data, 512), 512))
      [] ext = ExtGif -> parse_gif_dimensions(ZeroPadded(Take(data, 32), 32))
      [] ext = ExtBmp -> parse_bmp_dimensions(ZeroPadded(Take(data, 32), 32))
      [] ext = ExtIco -> Dimensions(AsU32(0), AsU32(0), "ICO")
      [] ext = ExtWebp -> Dimensions(AsU32(0), AsU32(0), "WEBP")
      [] OTHER -> Dimensions(AsU32(0), AsU32(0), "Image")

load_image_preview(fs, path, ext, io) ==
    IF ~CanOpen(fs, path, io) THEN PreviewError("Cannot open")
    ELSE Bind(ImageDimensions(fs[path].data, ext), LAMBDA dims :
            [kind |-> "Image", width |-> dims.width, height |-> dims.height,
             format |-> dims.format])

\* load_file_preview once the file is read into buffer.
FilePreview(buffer, ext) ==
    IF is_text(buffer) /\ Utf8Valid(buffer)
    THEN [kind |-> "Text", content |-> buffer, extension |-> ext]
    ELSE [kind |-> "Binary", bytes |-> buffer]

\* The lowercased extension of the path, "" when it has none.
LoweredExtension(path) ==
    Bind(extension(Unwrap(file_name(path))), LAMBDA e :
        to_lowercase(IF IsSome(e) THEN Unwrap(e) ELSE <<>>))

\* A preview that reads the whole file.
load_file_preview_uncapped(fs, path, io) ==
    Bind(LoweredExtension(path), LAMBDA ext :
        IF ext \in ImageExtensions THEN load_image_preview(fs, path, ext, io)
        ELSE IF ~CanOpen(fs, path, io) THEN PreviewError("Cannot open")
        ELSE FilePreview(fs[path].data, ext))

load_file_preview(fs, path, io) ==
    Bind(LoweredExtension(path), LAMBDA ext :
        IF ext \in ImageExtensions THEN load_image_preview(fs, path, ext, io)
        ELSE IF ~CanOpen(fs, path, io) THEN PreviewError("Cannot open")
        ELSE FilePreview(Take(fs[path].data, MAX_PREVIEW), ext))

\* The (is_dir, name, name_lower) items of load_directory_preview, unsorted.
PreviewItems(fs, path, names) ==
    [i \in 1..Len(names) |->
        [is_dir |-> fs[join(path, names[i])].is_dir, name |-> names[i],
         name_lower |-> to_lowercase(names[i])]]

\* The formatted lines: each stands for its marker (directory or file) and name.
Formatted(items) ==
    [i \in 1..Len(items) |-> [is_dir |-> items[i].is_dir, name |-> items[i].name]]

load_directory_preview(fs, path, show_hidden, io) ==
    IF ~(io.pv /\ is_dir(fs, path)) THEN PreviewError("Cannot read directory")
    ELSE [kind |-> "Directory",
          items |-> Formatted(sort_by(PreviewItems(fs, path,
                        SelectSeq(read_dir(fs, path, io.desc),
                                  LAMBDA n : show_hidden \/ ~is_hidden_file(n)))))]

\* The preview update_preview loads for the selected entry sel (an Option).
PreviewOf(s, sel, io) ==
    IF ~IsSome(sel) THEN PreviewNone
    ELSE IF Unwrap(sel).is_dir
    THEN Bind(IF Unwrap(sel).name = DotDot THEN parent(s.current_dir)
              ELSE Some(join(s.current_dir, Unwrap(sel).name)),
              LAMBDA path : IF IsSome(path)
                            THEN load_directory_preview(s.fs, Unwrap(path), s.show_hidden, io)
                            ELSE PreviewNone)
    ELSE load_file_preview(s.fs, join(s.current_dir, Unwrap(sel).name), io)

update_preview(s, io) ==
    [s EXCEPT !.scroll = 0, !.preview = PreviewOf(s, selected_entry(s), io)]

\* ------------------------------------------------------------- highlight.rs

\* Span::raw and Span::styled: the text and the style it is drawn in.
Raw(content) == [content |-> content, style |-> "raw"]
Styled(content, style) == [content |-> content, style |-> style]

\* The styles of keywords, types, numbers, comments and strings.
KeywordStyle == "Magenta.BOLD"
TypeStyle == "Cyan"
NumberStyle == "Yellow"
CommentStyle == "DarkGray"
StringStyle == "Green"

\* char::is_ascii_digit, and char::is_alphanumeric on ASCII characters.
is_ascii_digit(c) == c \in {"0", "1", "2", "3", "4", "5", "6", "7", "8", "9"}

AsciiLetters ==
    {"a", "b", "c", "d", "e", "f", "g", "h", "i", "j", "k", "l", "m", "n", "o", "p", "q",
     "r", "s", "t", "u", "v", "w", "x", "y", "z", "A", "B", "C", "D", "E", "F", "G", "H",
     "I", "J", "K", "L", "M", "N", "O", "P", "Q", "R", "S", "T", "U", "V", "W", "X", "Y",
     "Z"}

is_alphanumeric(c) == is_ascii_digit(c) \/ c \in AsciiLetters

get_keywords(ext) ==
    CASE ext = <<"r", "s">> ->
          {<<"f", "n">>, <<"l", "e", "t">>, <<"m", "u", "t">>, <<"c", "o", "n", "s", "t">>,
           <<"p", "u", "b">>, <<"u", "s", "e">>, <<"m", "o", "d">>,
           <<"s", "t", "r", "u", "c", "t">>, <<"e", "n", "u", "m">>, <<"i", "m", "p", "l">>,
           <<"t", "r", "a", "i", "t">>, <<"w", "h", "e", "r", "e">>, <<"f", "o", "r">>,
           <<"i", "f">>, <<"e", "l", "s", "e">>, <<"m", "a", "t", "c", "h">>,
           <<"l", "o", "o", "p">>, <<"w", "h", "i", "l", "e">>,
           <<"r", "e", "t", "u", "r", "n">>, <<"b", "r", "e", "a", "k">>,
           <<"c", "o", "n", "t", "i", "n", "u", "e">>, <<"a", "s", "y", "n", "c">>,
           <<"a", "w", "a", "i", "t">>, <<"m", "o", "v", "e">>, <<"r", "e", "f">>,
           <<"s", "e", "l", "f">>, <<"S", "e", "l", "f">>, <<"s", "u", "p", "e", "r">>,
           <<"c", "r", "a", "t", "e">>, <<"d", "y", "n">>, <<"s", "t", "a", "t", "i", "c">>,
           <<"t", "y", "p", "e">>, <<"u", "n", "s", "a", "f", "e">>,
           <<"e", "x", "t", "e", "r", "n">>}
      [] ext = <<"p", "y">> ->
          {<<"d", "e", "f">>, <<"c", "l", "a", "s", "s">>, <<"i", "f">>,
           <<"e", "l", "i", "f">>, <<"e", "l", "s", "e">>, <<"f", "o", "r">>,
           <<"w", "h", "i", "l", "e">>, <<"r", "e", "t", "u", "r", "n">>,
           <<"i", "m", "p", "o", "r", "t">>, <<"f", "r", "o", "m">>, <<"a", "s">>,
           <<"t", "r", "y">>, <<"e", "x", "c", "e", "p", "t">>,
           <<"f", "i", "n", "a", "l", "l", "y">>, <<"w", "i", "t", "h">>,
           <<"y", "i", "e", "l", "d">>, <<"l", "a", "m", "b", "d", "a">>,
           <<"p", "a", "s", "s">>, <<"b", "r", "e", "a", "k">>,
           <<"c", "o", "n", "t", "i", "n", "u", "e">>, <<"r", "a", "i", "s", "e">>,
           <<"a", "s", "s", "e", "r", "t">>, <<"g", "l", "o", "b", "a", "l">>,
           <<"n", "o", "n", "l", "o", "c", "a", "l">>, <<"a", "s", "y", "n", "c">>,
           <<"a", "w", "a", "i", "t">>}
      [] ext \in {<<"j", "s">>, <<"t", "s">>, <<"j", "s", "x">>, <<"t", "s", "x">>} ->
          {<<"f", "u", "n", "c", "t", "i", "o", "n">>, <<"c", "o", "n", "s", "t">>,
           <<"l", "e", "t">>, <<"v", "a", "r">>, <<"i", "f">>, <<"e", "l", "s", "e">>,
           <<"f", "o", "r">>, <<"w", "h", "i", "l", "e">>, <<"r", "e", "t", "u", "r", "n">>,
           <<"c", "l", "a", "s", "s">>, <<"e", "x", "t", "e", "n", "d", "s">>,
           <<"i", "m", "p", "o", "r", "t">>, <<"e", "x", "p", "o", "r", "t">>,
           <<"f", "r", "o", "m">>, <<"d", "e", "f", "a", "u", "l", "t">>,
           <<"a", "s", "y", "n", "c">>, <<"a", "w", "a", "i", "t">>, <<"t", "r", "y">>,
           <<"c", "a", "t", "c", "h">>, <<"f", "i", "n", "a", "l", "l", "y">>,
           <<"t", "h", "r", "o", "w">>, <<"n", "e", "w">>, <<"t", "h", "i", "s">>,
           <<"s", "u", "p", "e", "r">>, <<"t", "y", "p", "e", "o", "f">>,
           <<"i", "n", "s", "t", "a", "n", "c", "e", "o", "f">>}
      [] ext = <<"g", "o">> ->
          {<<"f", "u", "n", "c">>, <<"v", "a", "r">>, <<"c", "o", "n", "s", "t">>,
           <<"t", "y", "p", "e">>, <<"s", "t", "r", "u", "c", "t">>,
           <<"i", "n", "t", "e", "r", "f", "a", "c", "e">>, <<"i", "f">>,
           <<"e", "l", "s", "e">>, <<"f", "o", "r">>, <<"r", "a", "n", "g", "e">>,
           <<"r", "e", "t", "u", "r", "n">>, <<"b", "r", "e", "a", "k">>,
           <<"c", "o", "n", "t", "i", "n", "u", "e">>, <<"s", "w", "i", "t", "c", "h">>,
           <<"c", "a", "s", "e">>, <<"d", "e", "f", "a", "u", "l", "t">>, <<"g", "o">>,
           <<"c", "h", "a", "n">>, <<"s", "e", "l", "e", "c", "t">>,
           <<"d", "e", "f", "e", "r">>, <<"p", "a", "c", "k", "a", "g", "e">>,
           <<"i", "m", "p", "o", "r", "t">>, <<"m", "a", "p">>}
      [] ext \in {<<"c">>, <<"h">>, <<"c", "p", "p">>, <<"h", "p", "p">>, <<"c", "c">>} ->
          {<<"i", "f">>, <<"e", "l", "s", "e">>, <<"f", "o", "r">>,
           <<"w", "h", "i", "l", "e">>, <<"d", "o">>, <<"s", "w", "i", "t", "c", "h">>,
           <<"c", "a", "s", "e">>, <<"d", "e", "f", "a", "u", "l", "t">>,
           <<"r", "e", "t", "u", "r", "n">>, <<"b", "r", "e", "a", "k">>,
           <<"c", "o", "n", "t", "i", "n", "u", "e">>, <<"s", "t", "r", "u", "c", "t">>,
           <<"u", "n", "i", "o", "n">>, <<"e", "n", "u", "m">>,
           <<"t", "y", "p", "e", "d", "e", "f">>, <<"s", "i", "z", "e", "o", "f">>,
           <<"s", "t", "a", "t", "i", "c">>, <<"c", "o", "n", "s", "t">>,
           <<"e", "x", "t", "e", "r", "n">>, <<"v", "o", "i", "d">>,
           <<"c", "l", "a", "s", "s">>, <<"p", "u", "b", "l", "i", "c">>,
           <<"p", "r", "i", "v", "a", "t", "e">>,
           <<"p", "r", "o", "t", "e", "c", "t", "e", "d">>,
           <<"v", "i", "r", "t", "u", "a", "l">>, <<"t", "e", "m", "p", "l", "a", "t", "e">>,
           <<"n", "a", "m", "e", "s", "p", "a", "c", "e">>, <<"u", "s", "i", "n", "g">>,
           <<"n", "e", "w">>, <<"d", "e", "l", "e", "t", "e">>}
      [] ext = <<"j", "a", "v", "a">> ->
          {<<"c", "l", "a", "s", "s">>, <<"i", "n", "t", "e", "r", "f", "a", "c", "e">>,
           <<"e", "x", "t", "e", "n", "d", "s">>,
           <<"i", "m", "p", "l", "e", "m", "e", "n", "t", "s">>, <<"i", "f">>,
           <<"e", "l", "s", "e">>, <<"f", "o", "r">>, <<"w", "h", "i", "l", "e">>,
           <<"d", "o">>, <<"s", "w", "i", "t", "c", "h">>, <<"c", "a", "s", "e">>,
           <<"d", "e", "f", "a", "u", "l", "t">>, <<"r", "e", "t", "u", "r", "n">>,
           <<"b", "r", "e", "a", "k">>, <<"c", "o", "n", "t", "i", "n", "u", "e">>,
           <<"n", "e", "w">>, <<"t", "h", "i", "s">>, <<"s", "u", "p", "e", "r">>,
           <<"p", "u", "b", "l", "i", "c">>, <<"p", "r", "i", "v", "a", "t", "e">>,
           <<"p", "r", "o", "t", "e", "c", "t", "e", "d">>, <<"s", "t", "a", "t", "i", "c">>,
           <<"f", "i", "n", "a", "l">>, <<"a", "b", "s", "t", "r", "a", "c", "t">>,
           <<"v", "o", "i", "d">>, <<"i", "m", "p", "o", "r", "t">>,
           <<"p", "a", "c", "k", "a", "g", "e">>, <<"t", "r", "y">>,
           <<"c", "a", "t", "c", "h">>, <<"f", "i", "n", "a", "l", "l", "y">>,
           <<"t", "h", "r", "o", "w">>, <<"t", "h", "r", "o", "w", "s">>}
      [] ext \in {<<"s", "h">>, <<"b", "a", "s", "h">>} ->
          {<<"i", "f">>, <<"t", "h", "e", "n">>, <<"e", "l", "s", "e">>,
           <<"e", "l", "i", "f">>, <<"f", "i">>, <<"f", "o", "r">>,
           <<"w", "h", "i", "l", "e">>, <<"d", "o">>, <<"d", "o", "n", "e">>,
           <<"c", "a", "s", "e">>, <<"e", "s", "a", "c">>,
           <<"f", "u", "n", "c", "t", "i", "o", "n">>, <<"r", "e", "t", "u", "r", "n">>,
           <<"e", "x", "i", "t">>, <<"e", "x", "p", "o", "r", "t">>,
           <<"l", "o", "c", "a", "l">>, <<"r", "e", "a", "d", "o", "n", "l", "y">>}
      [] OTHER -> {}

\* A type table that knows int for every extension.
get_types_int_everywhere(ext) == {<<"i", "n", "t">>}

get_types(ext) ==
    CASE ext = <<"r", "s">> ->
          {<<"i", "8">>, <<"i", "1", "6">>, <<"i", "3", "2">>, <<"i", "6", "4">>,
           <<"i", "1", "2", "8">>, <<"i", "s", "i", "z", "e">>, <<"u", "8">>,
           <<"u", "1", "6">>, <<"u", "3", "2">>, <<"u", "6", "4">>, <<"u", "1", "2", "8">>,
           <<"u", "s", "i", "z", "e">>, <<"f", "3", "2">>, <<"f", "6", "4">>,
           <<"b", "o", "o", "l">>, <<"c", "h", "a", "r">>, <<"s", "t", "r">>,
           <<"S", "t", "r", "i", "n", "g">>, <<"V", "e", "c">>,
           <<"O", "p", "t", "i", "o", "n">>, <<"R", "e", "s", "u", "l", "t">>,
           <<"B", "o", "x">>, <<"R", "c">>, <<"A", "r", "c">>,
           <<"H", "a", "s", "h", "M", "a", "p">>, <<"H", "a", "s", "h", "S", "e", "t">>,
           <<"P", "a", "t", "h", "B", "u", "f">>}
      [] ext = <<"p", "y">> ->
          {<<"i", "n", "t">>, <<"f", "l", "o", "a", "t">>, <<"s", "t", "r">>,
           <<"b", "o", "o", "l">>, <<"l", "i", "s", "t">>, <<"d", "i", "c", "t">>,
           <<"t", "u", "p", "l", "e">>, <<"s", "e", "t">>, <<"N", "o", "n", "e">>,
           <<"T", "r", "u", "e">>, <<"F", "a", "l", "s", "e">>}
      [] ext \in {<<"j", "s">>, <<"t", "s">>, <<"j", "s", "x">>, <<"t", "s", "x">>} ->
          {<<"s", "t", "r", "i", "n", "g">>, <<"n", "u", "m", "b", "e", "r">>,
           <<"b", "o", "o", "l", "e", "a", "n">>, <<"n", "u", "l", "l">>,
           <<"u", "n", "d", "e", "f", "i", "n", "e", "d">>, <<"t", "r", "u", "e">>,
           <<"f", "a", "l", "s", "e">>, <<"A", "r", "r", "a", "y">>,
           <<"O", "b", "j", "e", "c", "t">>, <<"P", "r", "o", "m", "i", "s", "e">>,
           <<"v", "o", "i", "d">>, <<"a", "n", "y">>, <<"n", "e", "v", "e", "r">>}
      [] ext = <<"g", "o">> ->
          {<<"i", "n", "t">>, <<"i", "n", "t", "8">>, <<"i", "n", "t", "1", "6">>,
           <<"i", "n", "t", "3", "2">>, <<"i", "n", "t", "6", "4">>, <<"u", "i", "n", "t">>,
           <<"u", "i", "n", "t", "8">>, <<"u", "i", "n", "t", "1", "6">>,
           <<"u", "i", "n", "t", "3", "2">>, <<"u", "i", "n", "t", "6", "4">>,
           <<"f", "l", "o", "a", "t", "3", "2">>, <<"f", "l", "o", "a", "t", "6", "4">>,
           <<"b", "o", "o", "l">>, <<"s", "t", "r", "i", "n", "g">>, <<"b", "y", "t", "e">>,
           <<"r", "u", "n", "e">>, <<"e", "r", "r", "o", "r">>, <<"t", "r", "u", "e">>,
           <<"f", "a", "l", "s", "e">>, <<"n", "i", "l">>}
      [] ext \in {<<"c">>, <<"h">>, <<"c", "p", "p">>, <<"h", "p", "p">>, <<"c", "c">>} ->
          {<<"i", "n", "t">>, <<"c", "h", "a", "r">>, <<"f", "l", "o", "a", "t">>,
           <<"d", "o", "u", "b", "l", "e">>, <<"l", "o", "n", "g">>,
           <<"s", "h", "o", "r", "t">>, <<"u", "n", "s", "i", "g", "n", "e", "d">>,
           <<"s", "i", "g", "n", "e", "d">>, <<"b", "o", "o", "l">>, <<"t", "r", "u", "e">>,
           <<"f", "a", "l", "s", "e">>, <<"N", "U", "L", "L">>,
           <<"n", "u", "l", "l", "p", "t", "r">>, <<"a", "u", "t", "o">>}
      [] ext = <<"j", "a", "v", "a">> ->
          {<<"i", "n", "t">>, <<"l", "o", "n", "g">>, <<"s", "h", "o", "r", "t">>,
           <<"b", "y", "t", "e">>, <<"f", "l", "o", "a", "t">>,
           <<"d", "o", "u", "b", "l", "e">>, <<"b", "o", "o", "l", "e", "a", "n">>,
           <<"c", "h", "a", "r">>, <<"S", "t", "r", "i", "n", "g">>, <<"t", "r", "u", "e">>,
           <<"f", "a", "l", "s", "e">>, <<"n", "u", "l", "l">>, <<"v", "o", "i", "d">>}
      [] OTHER -> {}

\* A classification that looks a word up among the types first.
colorize_word_types_first(word, keywords, types) ==
    IF word \in types THEN Styled(word, TypeStyle)
    ELSE IF word \in keywords THEN Styled(word, KeywordStyle)
    ELSE IF \A k \in 1..Len(word) : is_ascii_digit(word[k]) THEN Styled(word, NumberStyle)
    ELSE Raw(word)

colorize_word(word, keywords, types) ==
    IF word \in keywords THEN Styled(word, KeywordStyle)
    ELSE IF word \in types THEN Styled(word, TypeStyle)
    ELSE IF \A k \in 1..Len(word) : is_ascii_digit(word[k]) THEN Styled(word, NumberStyle)
    ELSE Raw(word)

\* The locals of highlight_line: the spans pushed, the two accumulators, the
\* string state, the index i into chars, and whether the loop was left by
\* break.
Scanner0 ==
    [spans |-> <<>>, current_word |-> <<>>, current_other |-> <<>>, in_string |-> FALSE,
     string_char |-> "\"", i |-> 0, broke |-> FALSE]

\* if !current_word.is_empty() { spans.push(colorize_word(..)); current_word.clear() }
FlushWord(sc, keywords, types) ==
    IF sc.current_word # <<>>
    THEN [sc EXCEPT !.spans = Append(@, colorize_word(sc.current_word, keywords, types)),
                    !.current_word = <<>>]
    ELSE sc

\* A flush that clears the pending text without pushing it.
FlushOtherDropped(sc) == [sc EXCEPT !.current_other = <<>>]

\* if !current_other.is_empty() { spans.push(Span::raw(..)); current_other.clear() }
FlushOther(sc) ==
    IF sc.current_other # <<>>
    THEN [sc EXCEPT !.spans = Append(@, Raw(sc.current_other)), !.current_other = <<>>]
    ELSE sc

\* The extensions in which # starts a comment.
HashCommentExtensions ==
    {<<"p", "y">>, <<"s", "h">>, <<"b", "a", "s", "h">>, <<"y", "a", "m", "l">>,
     <<"y", "m", "l">>, <<"t", "o", "m", "l">>}

\* The two tests for a comment start at chars[i].
CommentStart(chars, i, ext) ==
    \/ At(chars, i) = "/" /\ i + 1 < Len(chars) /\ At(chars, i + 1) = "/"
    \/ At(chars, i) = "#" /\ ext \in HashCommentExtensions

\* A string that any quote character closes.
ClosesStringAnyQuote(sc, c) == TRUE

\* c == string_char
ClosesString(sc, c) == c = sc.string_char

Quotes == {"\"", "'"}

\* One iteration of the while loop of highlight_line.
ScanStep(sc, chars, keywords, types, ext) ==
    Bind(At(chars, sc.i), LAMBDA c :
        IF ~sc.in_string /\ CommentStart(chars, sc.i, ext)
        THEN Bind(FlushOther(FlushWord(sc, keywords, types)), LAMBDA f :
                 [f EXCEPT !.spans = Append(@, Styled(SubSeq(chars, sc.i + 1, Len(chars)),
                                                      CommentStyle)),
                           !.broke = TRUE])
        ELSE IF c \in Quotes
        THEN IF ~sc.in_string
             THEN Bind(FlushOther(FlushWord(sc, keywords, types)), LAMBDA f :
                      [f EXCEPT !.in_string = TRUE, !.string_char = c,
                                !.current_other = Append(@, c), !.i = @ + 1])
             ELSE IF ClosesString(sc, c)
             THEN [sc EXCEPT !.spans = Append(@, Styled(Append(sc.current_other, c),
                                                        StringStyle)),
                             !.current_other = <<>>, !.in_string = FALSE, !.i = @ + 1]
             ELSE [sc EXCEPT !.current_other = Append(@, c), !.i = @ + 1]
        ELSE IF sc.in_string
        THEN [sc EXCEPT !.current_other = Append(@, c), !.i = @ + 1]
        ELSE IF is_alphanumeric(c) \/ c = "_"
        THEN Bind(FlushOther(sc), LAMBDA f :
                 [f EXCEPT !.current_word = Append(@, c), !.i = @ + 1])
        ELSE Bind(FlushWord(sc, keywords, types), LAMBDA f :
                 [f EXCEPT !.current_other = Append(@, c), !.i = @ + 1]))

\* while i < chars.len() { .. }, left also by break.
ScanOver(sc, chars) == sc.broke \/ sc.i >= Len(chars)

RECURSIVE Scan(_, _, _, _, _)
Scan(sc, chars, keywords, types, ext) ==
    IF ScanOver(sc, chars) THEN sc
    ELSE Scan(ScanStep(sc, chars, keywords, types, ext), chars, keywords, types, ext)

\* The flush of what is pending behind the loop.
FlushRemaining(sc, keywords, types) ==
    Bind(IF sc.current_word # <<>>
         THEN Append(sc.spans, colorize_word(sc.current_word, keywords, types))
         ELSE sc.spans,
         LAMBDA spans :
             IF sc.current_other = <<>> THEN spans
             ELSE IF sc.in_string THEN Append(spans, Styled(sc.current_other, StringStyle))
             ELSE Append(spans, Raw(sc.current_other)))

highlight_line(line, keywords, types, ext) ==
    FlushRemaining(Scan(Scanner0, line, keywords, types, ext), keywords, types)

\* ----------------------------------------------------------------- messages

Msg(kind, arg) == Some([kind |-> kind, arg |-> arg])

\* What the state remembers of the key event that produced it: the key, the
\* App method the event ran and the selection the event started from.
Did(s, op) == [s EXCEPT !.last = [@ EXCEPT !.op = op]]

\* --------------------------------------------------------------- navigation

\* io::Result<()> of a method, with the App it leaves behind.
Ok(s) == [app |-> s, ok |-> TRUE]
Err(s) == [app |-> s, ok |-> FALSE]

enter_selected(s, io) ==
    Bind(selected_entry(s), LAMBDA e :
        IF ~(IsSome(e) /\ Unwrap(e).is_dir) THEN Ok(s)
        ELSE Bind(Unwrap(PathOf(s, e)), LAMBDA new_path :
            IF ~(io.canon /\ exists(s.fs, new_path)) THEN Err(s)
            ELSE Bind(refresh([s EXCEPT !.current_dir = new_path, !.input = <<>>,
                                        !.mode = "Normal"], io),
                      LAMBDA s1 :
                          IF ~RefreshOk(s1, io) THEN Err(s1)
                          ELSE Ok(update_preview([s1 EXCEPT !.selected = Some(0)], io)))))

move_up(s, io) ==
    IF IsSome(s.selected) /\ Unwrap(s.selected) > 0
    THEN update_preview([s EXCEPT !.selected = Some(Unwrap(s.selected) - 1)], io)
    ELSE s

\* usize::saturating_sub(1)
SaturatingPred(n) == IF n = 0 THEN 0 ELSE n - 1

move_down(s, io) ==
    IF IsSome(s.selected) /\ Unwrap(s.selected) < SaturatingPred(Len(s.filtered_indices))
    THEN update_preview([s EXCEPT !.selected = Some(Unwrap(s.selected) + 1)], io)
    ELSE s

\* u16::saturating_sub(3), u16::saturating_add(3)
U16Max == 65535
ScrollStep == 3

scroll_preview_up(s) ==
    [s EXCEPT !.scroll = IF s.scroll < ScrollStep THEN 0 ELSE s.scroll - ScrollStep]

scroll_preview_down(s) ==
    [s EXCEPT !.scroll = IF s.scroll + ScrollStep > U16Max THEN U16Max
                         ELSE s.scroll + ScrollStep]

\* The tail shared by the navigation methods: refresh, select the first row,
\* update the preview.
Rescan(s, io) == update_preview([refresh(s, io) EXCEPT !.selected = Some(0)], io)

go_to_parent(s, io) ==
    IF ~IsSome(parent(s.current_dir)) THEN s
    ELSE Rescan([s EXCEPT !.current_dir = Unwrap(parent(s.current_dir)),
                          !.input = <<>>, !.mode = "Normal"], io)

go_to_start(s, io) ==
    IF s.current_dir = s.start_dir THEN s
    ELSE [Rescan([s EXCEPT !.current_dir = s.start_dir, !.input = <<>>,
                           !.mode = "Normal"], io)
            EXCEPT !.message = Msg("Back to start", <<>>)]

\* ------------------------------------------------------------ search, hidden

start_search(s) ==
    [s EXCEPT !.mode = "Search", !.input = <<>>,
              !.message = Msg("Search: type to filter", <<>>)]

cancel_search(s, io) ==
    update_preview(
        apply_filter([s EXCEPT !.mode = "Normal", !.input = <<>>, !.message = None]), io)

confirm_search(s) == [s EXCEPT !.mode = "Normal", !.message = None]

update_search(s, c, io) ==
    update_preview(apply_filter([s EXCEPT !.input = Append(s.input, c)]), io)

\* Vec::pop
Pop(q) == IF q = <<>> THEN q ELSE SubSeq(q, 1, Len(q) - 1)

backspace_search(s, io) ==
    update_preview(apply_filter([s EXCEPT !.input = Pop(s.input)]), io)

toggle_hidden(s, io) ==
    update_preview(
        apply_filter(
            [s EXCEPT !.show_hidden = ~s.show_hidden,
                      !.message = Msg(IF ~s.show_hidden THEN "Hidden files: shown"
                                      ELSE "Hidden files: hidden", <<>>)]), io)

\* ---------------------------------------------------- filesystem mutations
\* Each returns [fs, ok, n]: the filesystem left behind, whether the operation
\* returned Ok, and the number of filesystem calls made so far.  Call number
\* `fail` returns an error.

Outcome(fs, ok, n) == [fs |-> fs, ok |-> ok, n |-> n]

\* Can a new node be created at p?
Creatable(fs, p) == ~exists(fs, p) /\ p # <<>> /\ is_dir(fs, Unwrap(parent(p)))

\* fs::copy of a file to a path that may exist (then a file is overwritten).
copy(fs, src, dst, n, fail) ==
    IF n + 1 = fail \/ ~exists(fs, src) \/ fs[src].is_dir \/ is_dir(fs, dst)
       \/ dst = <<>> \/ ~is_dir(fs, Unwrap(parent(dst)))
    THEN Outcome(fs, FALSE, n + 1)
    ELSE Outcome([q \in DOMAIN fs \cup {dst} |-> IF q = dst THEN fs[src] ELSE fs[q]],
                 TRUE, n + 1)

create_dir(fs, p, n, fail) ==
    IF n + 1 = fail \/ ~Creatable(fs, p) THEN Outcome(fs, FALSE, n + 1)
    ELSE Outcome((p :> DirNode) @@ fs, TRUE, n + 1)

\* fs::File::create: a new empty file, or an existing file truncated.
create_file(fs, p, n, fail) ==
    IF n + 1 = fail \/ is_dir(fs, p) \/ p = <<>> \/ ~is_dir(fs, Unwrap(parent(p)))
    THEN Outcome(fs, FALSE, n + 1)
    ELSE Outcome([q \in DOMAIN fs \cup {p} |-> IF q = p THEN FileNode(<<>>) ELSE fs[q]],
                 TRUE, n + 1)

RECURSIVE copy_dir_recursive(_, _, _, _, _, _)
RECURSIVE CopyChildren(_, _, _, _, _, _, _)
copy_dir_recursive(fs, src, dst, n, fail, desc) ==
    Bind(create_dir(fs, dst, n, fail), LAMBDA made :
        IF ~made.ok THEN made
        ELSE IF made.n + 1 = fail \/ ~is_dir(made.fs, src)
        THEN Outcome(made.fs, FALSE, made.n + 1)
        ELSE CopyChildren(made.fs, src, dst, read_dir(made.fs, src, desc), made.n + 1,
                          fail, desc))

\* The for loop of copy_dir_recursive over the remaining children.
CopyChildren(fs, src, dst, names, n, fail, desc) ==
    IF names = <<>> THEN Outcome(fs, TRUE, n)
    ELSE Bind(IF is_dir(fs, join(src, Head(names)))
              THEN copy_dir_recursive(fs, join(src, Head(names)), join(dst, Head(names)),
                                      n, fail, desc)
              ELSE copy(fs, join(src, Head(names)), join(dst, Head(names)), n, fail),
              LAMBDA r : IF ~r.ok THEN r
                         ELSE CopyChildren(r.fs, src, dst, Tail(names), r.n, fail, desc))

remove_file(fs, p, n, fail) ==
    IF n + 1 = fail \/ ~exists(fs, p) \/ fs[p].is_dir THEN Outcome(fs, FALSE, n + 1)
    ELSE Outcome(Without(fs, {p}), TRUE, n + 1)

\* fs::remove_dir_all: the children first, then the directory itself.
RECURSIVE remove_dir_all(_, _, _, _, _)
RECURSIVE RemoveChildren(_, _, _, _, _, _)
remove_dir_all(fs, p, n, fail, desc) ==
    IF n + 1 = fail \/ ~is_dir(fs, p) \/ p = <<>> THEN Outcome(fs, FALSE, n + 1)
    ELSE Bind(RemoveChildren(fs, p, read_dir(fs, p, desc), n + 1, fail, desc),
              LAMBDA emptied :
                  IF ~emptied.ok THEN emptied
                  ELSE IF emptied.n + 1 = fail
                  THEN Outcome(emptied.fs, FALSE, emptied.n + 1)
                  ELSE Outcome(Without(emptied.fs, {p}), TRUE, emptied.n + 1))

RemoveChildren(fs, p, names, n, fail, desc) ==
    IF names = <<>> THEN Outcome(fs, TRUE, n)
    ELSE Bind(IF is_dir(fs, join(p, Head(names)))
              THEN remove_dir_all(fs, join(p, Head(names)), n, fail, desc)
              ELSE remove_file(fs, join(p, Head(names)), n, fail),
              LAMBDA r : IF ~r.ok THEN r
                         ELSE RemoveChildren(r.fs, p, Tail(names), r.n, fail, desc))

\* fs::rename(src, dst) with the POSIX rules for an existing dst: a file
\* replaces a file, a directory replaces an empty directory, nothing else.
rename(fs, src, dst, n, fail) ==
    IF \/ n + 1 = fail
       \/ ~exists(fs, src) \/ src = <<>> \/ dst = <<>>
       \/ ~is_dir(fs, Unwrap(parent(dst)))
       \/ (src # dst /\ starts_with(dst, src))
       \/ (exists(fs, dst) /\ fs[dst].is_dir # fs[src].is_dir)
       \/ (is_dir(fs, dst) /\ src # dst /\ ChildNames(fs, dst) # {})
    THEN Outcome(fs, FALSE, n + 1)
    ELSE IF src = dst THEN Outcome(fs, TRUE, n + 1)
    ELSE Outcome(Rerooted(fs, src, dst) @@ Without(fs, Subtree(fs, src) \cup {dst}),
                 TRUE, n + 1)

\* ---------------------------------------------------------------- clipboard

\* A copy or cut that takes ".." like any other entry.
ClipAnyEntry(s, e, is_cut) ==
    IF ~IsSome(e) THEN s
    ELSE [s EXCEPT !.clipboard = Some([path |-> join(s.current_dir, Unwrap(e).name),
                                       is_cut |-> is_cut]),
                   !.message = Msg(IF is_cut THEN "Cut" ELSE "Copied", Unwrap(e).name)]

\* copy_file and cut_file for the selected entry e (an Option).
Clip(s, e, is_cut) ==
    IF ~IsSome(e) \/ Unwrap(e).name = DotDot THEN s
    ELSE [s EXCEPT !.clipboard = Some([path |-> join(s.current_dir, Unwrap(e).name),
                                       is_cut |-> is_cut]),
                   !.message = Msg(IF is_cut THEN "Cut" ELSE "Copied", Unwrap(e).name)]

copy_file(s) == Clip(s, selected_entry(s), FALSE)

cut_file(s) == Clip(s, selected_entry(s), TRUE)

\* The while loop of paste_file: the first free <stem>_<counter><ext>.
RECURSIVE UniqueDest(_, _, _, _, _)
UniqueDest(fs, dir, stem, ext, counter) ==
    IF exists(fs, join(dir, stem \o <<"_">> \o ToDecimal(counter) \o ext))
    THEN UniqueDest(fs, dir, stem, ext, counter + 1)
    ELSE join(dir, stem \o <<"_">> \o ToDecimal(counter) \o ext)

\* format!(".{}", extension) or "" of a file name.
DotExtension(name) ==
    Bind(extension(name), LAMBDA e : IF IsSome(e) THEN <<".">> \o Unwrap(e) ELSE <<>>)

\* A destination chosen without looking for a name conflict.
PasteDestAsIs(fs, current_dir, name) == join(current_dir, name)

\* The destination paste_file settles on for the source file name.
PasteDest(fs, current_dir, name) ==
    IF exists(fs, join(current_dir, name))
    THEN UniqueDest(fs, current_dir, file_stem(name), DotExtension(name), 1)
    ELSE join(current_dir, name)

\* The rename or copy of paste_file.
PasteResult(fs, clip, dest, io) ==
    IF clip.is_cut THEN rename(fs, clip.path, dest, 0, io.fail)
    ELSE IF is_dir(fs, clip.path)
    THEN copy_dir_recursive(fs, clip.path, dest, 0, io.fail, io.desc)
    ELSE copy(fs, clip.path, dest, 0, io.fail)

\* A paste that empties the clipboard after a copy as after a cut.
PastedClearing(s, clip, dest, result, io) ==
    IF ~result.ok THEN [s EXCEPT !.fs = result.fs, !.message = Msg("Paste failed", <<>>)]
    ELSE update_preview(
            refresh(invalidate_git_cache(
                [s EXCEPT !.fs = result.fs,
                          !.message = Msg(IF clip.is_cut THEN "Moved" ELSE "Pasted",
                                          Unwrap(file_name(dest))),
                          !.clipboard = None]), io), io)

\* The match on result of paste_file.
Pasted(s, clip, dest, result, io) ==
    IF ~result.ok THEN [s EXCEPT !.fs = result.fs, !.message = Msg("Paste failed", <<>>)]
    ELSE update_preview(
            refresh(invalidate_git_cache(
                [s EXCEPT !.fs = result.fs,
                          !.message = Msg(IF clip.is_cut THEN "Moved" ELSE "Pasted",
                                          Unwrap(file_name(dest))),
                          !.clipboard = IF clip.is_cut THEN None ELSE s.clipboard]), io), io)

\* A paste without the check that a cut item already lies in this directory.
PasteClipUnchecked(s, clip, io) ==
    IF ~exists(s.fs, clip.path)
    THEN [s EXCEPT !.message = Msg("Source no longer exists", <<>>), !.clipboard = None]
    ELSE IF ~IsSome(file_name(clip.path))
    THEN [s EXCEPT !.message = Msg("Invalid source path", <<>>)]
    ELSE IF is_dir(s.fs, clip.path)
            /\ starts_with(join(s.current_dir, Unwrap(file_name(clip.path))), clip.path)
    THEN [s EXCEPT !.message = Msg("Cannot copy a directory into itself", <<>>)]
    ELSE Bind(PasteDest(s.fs, s.current_dir, Unwrap(file_name(clip.path))), LAMBDA dest :
            Pasted(s, clip, dest, PasteResult(s.fs, clip, dest, io), io))

\* paste_file for the clipboard content clip.
PasteClip(s, clip, io) ==
    IF ~exists(s.fs, clip.path)
    THEN [s EXCEPT !.message = Msg("Source no longer exists", <<>>), !.clipboard = None]
    ELSE IF clip.is_cut /\ parent(clip.path) = Some(s.current_dir)
    THEN [s EXCEPT !.message = Msg("Item is already in this directory", <<>>)]
    ELSE IF ~IsSome(file_name(clip.path))
    THEN [s EXCEPT !.message = Msg("Invalid source path", <<>>)]
    ELSE IF is_dir(s.fs, clip.path)
            /\ starts_with(join(s.current_dir, Unwrap(file_name(clip.path))), clip.path)
    THEN [s EXCEPT !.message = Msg("Cannot copy a directory into itself", <<>>)]
    ELSE Bind(PasteDest(s.fs, s.current_dir, Unwrap(file_name(clip.path))), LAMBDA dest :
            Pasted(s, clip, dest, PasteResult(s.fs, clip, dest, io), io))

paste_file(s, io) ==
    IF ~IsSome(s.clipboard) THEN [s EXCEPT !.message = Msg("Nothing to paste", <<>>)]
    ELSE PasteClip(s, Unwrap(s.clipboard), io)

\* ------------------------------------------------------------------- delete

\* start_delete for the selected entry e (an Option).
DeleteStart(s, e) ==
    IF ~IsSome(e) THEN s
    ELSE IF Unwrap(e).name = DotDot
    THEN [s EXCEPT !.message = Msg("Cannot delete '..'", <<>>)]
    ELSE [s EXCEPT !.mode = "ConfirmDelete",
                   !.message = Msg("Delete? (y/n)", Unwrap(e).name)]

start_delete(s) == DeleteStart(s, selected_entry(s))

\* The selection adjustment of confirm_delete after its refresh.
AdjustAfterDelete(s) ==
    IF IsSome(s.selected) /\ Unwrap(s.selected) >= Len(s.filtered_indices)
       /\ Unwrap(s.selected) > 0
    THEN [s EXCEPT !.selected = Some(Unwrap(s.selected) - 1)]
    ELSE s

\* The match on result of confirm_delete.
Deleted(s, result, io) ==
    IF ~result.ok THEN [s EXCEPT !.fs = result.fs, !.message = Msg("Delete failed", <<>>)]
    ELSE update_preview(
            AdjustAfterDelete(
                refresh(invalidate_git_cache(
                    [s EXCEPT !.fs = result.fs,
                              !.message = Msg("Deleted successfully", <<>>)]), io)), io)

\* confirm_delete for the selected path (an Option), before the mode is reset.
DeletePath(s, path, io) ==
    IF ~IsSome(path) THEN s
    ELSE Deleted(s, IF is_dir(s.fs, Unwrap(path))
                    THEN remove_dir_all(s.fs, Unwrap(path), 0, io.fail, io.desc)
                    ELSE remove_file(s.fs, Unwrap(path), 0, io.fail), io)

confirm_delete(s, io) == [DeletePath(s, selected_path(s), io) EXCEPT !.mode = "Normal"]

cancel_delete(s) == [s EXCEPT !.mode = "Normal", !.message = None]

\* --------------------------------------------------------------- text input

\* Vec::insert(i, c) and Vec::remove(i) at a 0-based index.
Insert(q, i, c) == SubSeq(q, 1, i) \o <<c>> \o SubSeq(q, i + 1, Len(q))
Remove(q, i) == SubSeq(q, 1, i) \o SubSeq(q, i + 2, Len(q))

input_char(s, c) ==
    [s EXCEPT !.input = Insert(s.input, s.cursor, c), !.cursor = s.cursor + 1]

input_backspace(s) ==
    IF s.cursor > 0
    THEN [s EXCEPT !.cursor = s.cursor - 1, !.input = Remove(s.input, s.cursor - 1)]
    ELSE s

input_delete(s) ==
    IF s.cursor < Len(s.input) THEN [s EXCEPT !.input = Remove(s.input, s.cursor)] ELSE s

cursor_left(s) == [s EXCEPT !.cursor = SaturatingPred(s.cursor)]

\* A cursor that moves right whatever the buffer holds.
cursor_right_unchecked(s) == [s EXCEPT !.cursor = s.cursor + 1]

cursor_right(s) ==
    IF s.cursor < Len(s.input) THEN [s EXCEPT !.cursor = s.cursor + 1] ELSE s

cursor_home(s) == [s EXCEPT !.cursor = 0]

cursor_end(s) == [s EXCEPT !.cursor = Len(s.input)]

input_clear(s) == [s EXCEPT !.input = <<>>, !.cursor = 0]

\* ------------------------------------------------------------------- rename

\* start_rename for the selected entry e (an Option).
RenameStart(s, e) ==
    IF ~IsSome(e) THEN s
    ELSE IF Unwrap(e).name = DotDot
    THEN [s EXCEPT !.message = Msg("Cannot rename '..'", <<>>)]
    ELSE [s EXCEPT !.mode = "Rename", !.input = Unwrap(e).name,
                   !.cursor = Len(Unwrap(e).name), !.message = None]

start_rename(s) == RenameStart(s, selected_entry(s))

\* Path::join(name) as a path of the model: "." names the directory itself and
\* ".." its parent.
JoinTyped(dir, name) ==
    IF name = <<".">> THEN dir
    ELSE IF name = DotDot THEN (IF dir = <<>> THEN dir ELSE Unwrap(parent(dir)))
    ELSE join(dir, name)

\* A confirm_rename that leaves Rename mode when fs::rename fails.
RenamedLeavingMode(s, result, io) ==
    IF ~result.ok
    THEN [s EXCEPT !.message = Msg("Rename failed", <<>>), !.mode = "Normal", !.input = <<>>]
    ELSE update_preview(
            refresh(invalidate_git_cache(
                [s EXCEPT !.fs = result.fs, !.message = Msg("Renamed to", s.input),
                          !.mode = "Normal", !.input = <<>>]), io), io)

\* The match on the fs::rename result of confirm_rename.
Renamed(s, result, io) ==
    IF ~result.ok THEN [s EXCEPT !.message = Msg("Rename failed", <<>>)]
    ELSE update_preview(
            refresh(invalidate_git_cache(
                [s EXCEPT !.fs = result.fs, !.message = Msg("Renamed to", s.input),
                          !.mode = "Normal", !.input = <<>>]), io), io)

\* A confirm_rename that calls fs::rename even for an unchanged name.
RenameEntryAlways(s, e, io) ==
    IF ~IsSome(e) THEN s
    ELSE IF s.input = <<>> THEN [s EXCEPT !.message = Msg("Name cannot be empty", <<>>)]
    ELSE Renamed(s, IF s.input \in {<<".">>, DotDot} THEN Outcome(s.fs, FALSE, 1)
                    ELSE rename(s.fs, join(s.current_dir, Unwrap(e).name),
                                join(s.current_dir, s.input), 0, io.fail), io)

\* confirm_rename for the selected entry e (an Option); the new name is the
\* input buffer.
RenameEntry(s, e, io) ==
    IF ~IsSome(e) THEN s
    ELSE IF s.input = <<>> THEN [s EXCEPT !.message = Msg("Name cannot be empty", <<>>)]
    ELSE IF join(s.current_dir, Unwrap(e).name) = join(s.current_dir, s.input)
    THEN [s EXCEPT !.mode = "Normal", !.input = <<>>, !.message = None]
    ELSE Renamed(s, IF s.input \in {<<".">>, DotDot} THEN Outcome(s.fs, FALSE, 1)
                    ELSE rename(s.fs, join(s.current_dir, Unwrap(e).name),
                                join(s.current_dir, s.input), 0, io.fail), io)

confirm_rename(s, io) == RenameEntry(s, selected_entry(s), io)

\* handle_rename_mode's Cancel arm.
cancel_rename(s) ==
    [s EXCEPT !.mode = "Normal", !.input = <<>>, !.cursor = 0, !.message = None]

\* ------------------------------------------------------- new file, new folder

start_new_file(s) ==
    [s EXCEPT !.mode = "NewFile", !.input = <<>>, !.cursor = 0, !.message = None]

start_new_folder(s) ==
    [s EXCEPT !.mode = "NewFolder", !.input = <<>>, !.cursor = 0, !.message = None]

\* A create that does not look whether the name is taken.
ConfirmNewUnchecked(s, result, failure, io) ==
    IF s.input = <<>> THEN [s EXCEPT !.message = Msg("Name cannot be empty", <<>>)]
    ELSE IF ~result.ok THEN [s EXCEPT !.message = Msg(failure, <<>>)]
    ELSE update_preview(
            refresh(invalidate_git_cache(
                [s EXCEPT !.fs = result.fs, !.message = Msg("Created", s.input),
                          !.mode = "Normal", !.input = <<>>, !.cursor = 0]), io), io)

\* The common body of confirm_new_file and confirm_new_folder; result is the
\* outcome of the creating call.
ConfirmNew(s, result, failure, io) ==
    IF s.input = <<>> THEN [s EXCEPT !.message = Msg("Name cannot be empty", <<>>)]
    ELSE IF exists(s.fs, JoinTyped(s.current_dir, s.input))
    THEN [s EXCEPT !.message = Msg("already exists", s.input)]
    ELSE IF ~result.ok THEN [s EXCEPT !.message = Msg(failure, <<>>)]
    ELSE update_preview(
            refresh(invalidate_git_cache(
                [s EXCEPT !.fs = result.fs, !.message = Msg("Created", s.input),
                          !.mode = "Normal", !.input = <<>>, !.cursor = 0]), io), io)

confirm_new_file(s, io) ==
    ConfirmNew(s, create_file(s.fs, join(s.current_dir, s.input), 0, io.fail),
               "Failed to create file", io)

confirm_new_folder(s, io) ==
    ConfirmNew(s, create_dir(s.fs, join(s.current_dir, s.input), 0, io.fail),
               "Failed to create folder", io)

cancel_new(s) ==
    [s EXCEPT !.mode = "Normal", !.input = <<>>, !.cursor = 0, !.message = None]

toggle_help(s) == [s EXCEPT !.mode = IF s.mode = "Help" THEN "Normal" ELSE "Help"]

\* --------------------------------------------------------------------- path

\* Path::to_string_lossy of an absolute path.
RECURSIVE PathString(_)
PathString(p) ==
    IF p = <<>> THEN <<"/">>
    ELSE IF Len(p) = 1 THEN <<"/">> \o p[1]
    ELSE PathString(SubSeq(p, 1, Len(p) - 1)) \o <<"/">> \o p[Len(p)]

\* The components of a typed path: the text between separators, empty
\* components and "." dropped as Path::components does.
RECURSIVE SplitFrom(_, _, _)
SplitFrom(str, i, acc) ==
    IF i > Len(str) THEN (IF acc \in {<<>>, <<".">>} THEN <<>> ELSE <<acc>>)
    ELSE IF str[i] = "/"
    THEN (IF acc \in {<<>>, <<".">>} THEN <<>> ELSE <<acc>>) \o SplitFrom(str, i + 1, <<>>)
    ELSE SplitFrom(str, i + 1, Append(acc, str[i]))

Components(str) == SplitFrom(str, 1, <<>>)

IsAbsolute(str) == str # <<>> /\ str[1] = "/"

\* The path the operating system resolves the components to from base, None
\* when a component is missing or is looked up in a file.
RECURSIVE Walk(_, _, _)
Walk(fs, base, comps) ==
    IF ~is_dir(fs, base) THEN None
    ELSE IF comps = <<>> THEN Some(base)
    ELSE IF ~exists(fs, JoinTyped(base, Head(comps))) THEN None
    ELSE IF Tail(comps) = <<>> THEN Some(JoinTyped(base, Head(comps)))
    ELSE Walk(fs, JoinTyped(base, Head(comps)), Tail(comps))

\* Where a typed path leads; a relative one starts at the working directory
\* of the process, a path with a trailing separator must name a directory.
Resolve(fs, cwd, str) ==
    IF str = <<>> THEN None
    ELSE Bind(Walk(fs, IF IsAbsolute(str) THEN <<>> ELSE cwd, Components(str)),
              LAMBDA found :
                  IF IsSome(found) /\ str[Len(str)] = "/" /\ ~is_dir(fs, Unwrap(found))
                  THEN None ELSE found)

\* The working directory of the process: the start directory, as when the
\* program is started without an argument.
WorkingDir(s) == s.start_dir

start_path(s) ==
    Bind(PathString(s.current_dir), LAMBDA text :
        [s EXCEPT !.mode = "Path", !.input = text, !.cursor = Len(text), !.message = None])

\* confirm_path for the path the input resolves to (an Option).  path.parent()
\* of a file path is the directory holding the file; for a bare relative file
\* name it is the empty path, which does not canonicalize.
NavigateTo(s, found, io) ==
    IF ~IsSome(found) THEN [s EXCEPT !.message = Msg("Path does not exist", s.input)]
    ELSE IF ~io.canon
            \/ (~is_dir(s.fs, Unwrap(found)) /\ ~IsAbsolute(s.input)
                /\ Len(Components(s.input)) = 1)
    THEN [s EXCEPT !.message = Msg("Cannot navigate", <<>>)]
    ELSE [Rescan([s EXCEPT !.current_dir = IF is_dir(s.fs, Unwrap(found)) THEN Unwrap(found)
                                           ELSE Unwrap(parent(Unwrap(found))),
                           !.mode = "Normal", !.input = <<>>, !.cursor = 0], io)
            EXCEPT !.message = None]

confirm_path(s, io) == NavigateTo(s, Resolve(s.fs, WorkingDir(s), s.input), io)

cancel_path(s) ==
    [s EXCEPT !.mode = "Normal", !.input = <<>>, !.cursor = 0, !.message = None]

\* ------------------------------------------------- yank, open with default
\* The system clipboard and the launcher are collaborators: only their
\* success or failure (io.pv stands for it) shows, in the message.

\* yank_path for the selected path (an Option).
Yank(s, path, io) ==
    IF ~IsSome(path) THEN s
    ELSE [s EXCEPT !.message = Msg(IF io.pv THEN "Copied" ELSE "Failed to copy",
                                   PathString(Unwrap(path)))]

yank_path(s, io) == Yank(s, selected_path(s), io)

\* open_with_default for the selected entry e (an Option).
Open(s, e, io) ==
    IF ~IsSome(e) \/ Unwrap(e).name = DotDot THEN s
    ELSE [s EXCEPT !.message = Msg(IF io.pv THEN "Opened" ELSE "Failed to open",
                                   Unwrap(e).name)]

open_with_default(s, io) == Open(s, selected_entry(s), io)

\* --------------------------------------------------------------- key events

\* A key event: its KeyCode, the character of a Char code ("grave" stands for
\* the grave accent), whether CONTROL is held, and its KeyEventKind.
Key(code) == [code |-> code, ch |-> "", ctrl |-> FALSE, kind |-> "Press"]
Char(c) == [code |-> "Char", ch |-> c, ctrl |-> FALSE, kind |-> "Press"]
Ctrl(key) == [key EXCEPT !.ctrl = TRUE]
OfKind(key, kind) == [key EXCEPT !.kind = kind]
IsChar(key, c) == key.code = "Char" /\ key.ch = c

\* handle_text_input: the state and the InputAction it returns.
handle_text_input(s, key) ==
    IF key.ctrl /\ IsChar(key, "u")
    THEN [s |-> Did(input_clear(s), "input_clear"), action |-> "Handled"]
    ELSE CASE key.code = "Esc" -> [s |-> s, action |-> "Cancel"]
           [] key.code = "Enter" -> [s |-> s, action |-> "Confirm"]
           [] key.code = "Backspace" ->
                [s |-> Did(input_backspace(s), "input_backspace"), action |-> "Handled"]
           [] key.code = "Delete" ->
                [s |-> Did(input_delete(s), "input_delete"), action |-> "Handled"]
           [] key.code = "Left" ->
                [s |-> Did(cursor_left(s), "cursor_left"), action |-> "Handled"]
           [] key.code = "Right" ->
                [s |-> Did(cursor_right(s), "cursor_right"), action |-> "Handled"]
           [] key.code = "Home" ->
                [s |-> Did(cursor_home(s), "cursor_home"), action |-> "Handled"]
           [] key.code = "End" ->
                [s |-> Did(cursor_end(s), "cursor_end"), action |-> "Handled"]
           [] key.code = "Char" ->
                [s |-> Did(input_char(s, key.ch), "input_char"), action |-> "Handled"]
           [] OTHER -> [s |-> s, action |-> "Unhandled"]

handle_normal_mode(s0, key, io) ==
    LET s == [s0 EXCEPT !.message = None]
    IN CASE IsChar(key, "q") \/ key.code = "Esc" -> Did([s EXCEPT !.running = FALSE], "quit")
         [] key.code = "Up" \/ IsChar(key, "k") -> Did(move_up(s, io), "move_up")
         [] key.code = "Down" \/ IsChar(key, "j") -> Did(move_down(s, io), "move_down")
         [] key.code \in {"Enter", "Right"} \/ IsChar(key, "l") ->
              Did(Bind(enter_selected(s, io), LAMBDA r :
                       IF r.ok THEN r.app
                       ELSE [r.app EXCEPT !.message = Msg("Cannot enter", <<>>)]),
                  "enter_selected")
         [] key.code \in {"Backspace", "Left"} \/ IsChar(key, "h") ->
              Did(go_to_parent(s, io), "go_to_parent")
         [] key.code = "PageUp" -> Did(scroll_preview_up(s), "scroll_preview_up")
         [] key.code = "PageDown" -> Did(scroll_preview_down(s), "scroll_preview_down")
         [] IsChar(key, "/") -> Did(start_search(s), "start_search")
         [] IsChar(key, "H") -> Did(toggle_hidden(s, io), "toggle_hidden")
         [] IsChar(key, "y") -> Did(yank_path(s, io), "yank_path")
         [] IsChar(key, "r") -> Did(start_rename(s), "start_rename")
         [] IsChar(key, "d") -> Did(start_delete(s), "start_delete")
         [] IsChar(key, "o") -> Did(open_with_default(s, io), "open_with_default")
         [] IsChar(key, "p") -> Did(start_path(s), "start_path")
         [] IsChar(key, "c") -> Did(copy_file(s), "copy_file")
         [] IsChar(key, "x") -> Did(cut_file(s), "cut_file")
         [] IsChar(key, "v") -> Did(paste_file(s, io), "paste_file")
         [] IsChar(key, "n") -> Did(start_new_file(s), "start_new_file")
         [] IsChar(key, "N") -> Did(start_new_folder(s), "start_new_folder")
         [] IsChar(key, "grave") -> Did(go_to_start(s, io), "go_to_start")
         [] IsChar(key, "?") -> Did(toggle_help(s), "toggle_help")
         [] OTHER -> s

handle_search_mode(s, key, io) ==
    CASE key.code = "Esc" -> Did(cancel_search(s, io), "cancel_search")
      [] key.code = "Enter" -> Did(confirm_search(s), "confirm_search")
      [] key.code = "Backspace" -> Did(backspace_search(s, io), "backspace_search")
      [] (key.code = "Up" \/ IsChar(key, "k")) /\ key.ctrl -> Did(move_up(s, io), "move_up")
      [] (key.code = "Down" \/ IsChar(key, "j")) /\ key.ctrl ->
           Did(move_down(s, io), "move_down")
      [] key.code = "Char" -> Did(update_search(s, key.ch, io), "update_search")
      [] OTHER -> s

handle_rename_mode(s, key, io) ==
    Bind(handle_text_input(s, key), LAMBDA r :
        CASE r.action = "Cancel" -> Did(cancel_rename(r.s), "cancel_rename")
          [] r.action = "Confirm" -> Did(confirm_rename(r.s, io), "confirm_rename")
          [] OTHER -> r.s)

\* A handler that takes every key but n, N and Esc for a yes.
confirm_delete_on_any_key(s, key, io) ==
    CASE IsChar(key, "n") \/ IsChar(key, "N") \/ key.code = "Esc" ->
           Did(cancel_delete(s), "cancel_delete")
      [] OTHER -> Did(confirm_delete(s, io), "confirm_delete")

handle_confirm_delete_mode(s, key, io) ==
    CASE IsChar(key, "y") \/ IsChar(key, "Y") -> Did(confirm_delete(s, io), "confirm_delete")
      [] IsChar(key, "n") \/ IsChar(key, "N") \/ key.code = "Esc" ->
           Did(cancel_delete(s), "cancel_delete")
      [] OTHER -> s

handle_path_mode(s, key, io) ==
    Bind(handle_text_input(s, key), LAMBDA r :
        CASE r.action = "Cancel" -> Did(cancel_path(r.s), "cancel_path")
          [] r.action = "Confirm" -> Did(confirm_path(r.s, io), "confirm_path")
          [] OTHER -> r.s)

handle_new_file_mode(s, key, io) ==
    Bind(handle_text_input(s, key), LAMBDA r :
        CASE r.action = "Cancel" -> Did(cancel_new(r.s), "cancel_new")
          [] r.action = "Confirm" -> Did(confirm_new_file(r.s, io), "confirm_new_file")
          [] OTHER -> r.s)

handle_new_folder_mode(s, key, io) ==
    Bind(handle_text_input(s, key), LAMBDA r :
        CASE r.action = "Cancel" -> Did(cancel_new(r.s), "cancel_new")
          [] r.action = "Confirm" -> Did(confirm_new_folder(r.s, io), "confirm_new_folder")
          [] OTHER -> r.s)

\* A handler that leaves the loop when Esc closes the help screen.
help_quits_on_esc(s, key) ==
    IF key.code = "Esc" THEN Did([toggle_help(s) EXCEPT !.running = FALSE], "quit")
    ELSE IF IsChar(key, "q") \/ IsChar(key, "?") THEN Did(toggle_help(s), "toggle_help")
    ELSE s

\* A handler that closes the help screen on every key.
help_closes_on_any_key(s, key) == Did(toggle_help(s), "toggle_help")

handle_help_mode(s, key) ==
    IF key.code = "Esc" \/ IsChar(key, "q") \/ IsChar(key, "?")
    THEN Did(toggle_help(s), "toggle_help")
    ELSE s

\* handle_key_event.  An event that is no press returns at once; a press starts
\* with a fresh record of what it did, and running becomes FALSE when the
\* handler returns false.
handle_key_event(s0, key, io) ==
    LET s == [s0 EXCEPT !.last = [op |-> "none", selected |-> s0.selected, key |-> key],
                        !.git_called = FALSE]
    IN CASE key.kind # "Press" -> s0
         [] s.mode = "Normal" -> handle_normal_mode(s, key, io)
         [] s.mode = "Search" -> handle_search_mode(s, key, io)
         [] s.mode = "Rename" -> handle_rename_mode(s, key, io)
         [] s.mode = "ConfirmDelete" -> handle_confirm_delete_mode(s, key, io)
         [] s.mode = "Path" -> handle_path_mode(s, key, io)
         [] s.mode = "NewFile" -> handle_new_file_mode(s, key, io)
         [] s.mode = "NewFolder" -> handle_new_folder_mode(s, key, io)
         [] s.mode = "Help" -> handle_help_mode(s, key)

\* -------------------------------------------------------------------- state

VARIABLES
    fs,                \* the filesystem
    current_dir, start_dir, all_entries, filtered_indices,
    selected,          \* state.selected()
    preview, scroll, mode, input, cursor, show_hidden, message, clipboard,
    git_statuses, git_cache_dir,
    running,           \* the event loop has not been left
    git_called,        \* the last key event invoked the git collaborator
    git_output,        \* the status lines git printed when it was last invoked
    call,              \* a function of the program run on its own: name, argument, result
    keys,              \* key presses handled so far
    last               \* what the last key event did

\* The variables of the running program.
app_vars ==
    <<fs, current_dir, start_dir, all_entries, filtered_indices, selected, preview,
      scroll, mode, input, cursor, show_hidden, message, clipboard, git_statuses,
      git_cache_dir, running, git_called, git_output, keys, last>>

vars == <<app_vars, call>>

\* No function is run on its own.
NoCall == [fn |-> "", arg |-> <<>>, ret |-> None]

\* The state as one record, the form the operators above work on.
St ==
    [fs |-> fs, current_dir |-> current_dir, start_dir |-> start_dir,
     all_entries |-> all_entries, filtered_indices |-> filtered_indices,
     selected |-> selected, preview |-> preview, scroll |-> scroll, mode |-> mode,
     input |-> input, cursor |-> cursor, show_hidden |-> show_hidden,
     message |-> message, clipboard |-> clipboard, git_statuses |-> git_statuses,
     git_cache_dir |-> git_cache_dir, running |-> running, git_called |-> git_called,
     git_output |-> git_output,
     keys |-> keys, last |-> last]

Becomes(s) ==
    /\ fs' = s.fs
    /\ current_dir' = s.current_dir
    /\ start_dir' = s.start_dir
    /\ all_entries' = s.all_entries
    /\ filtered_indices' = s.filtered_indices
    /\ selected' = s.selected
    /\ preview' = s.preview
    /\ scroll' = s.scroll
    /\ mode' = s.mode
    /\ input' = s.input
    /\ cursor' = s.cursor
    /\ show_hidden' = s.show_hidden
    /\ message' = s.message
    /\ clipboard' = s.clipboard
    /\ git_statuses' = s.git_statuses
    /\ git_cache_dir' = s.git_cache_dir
    /\ running' = s.running
    /\ git_called' = s.git_called
    /\ git_output' = s.git_output
    /\ call' = call
    /\ keys' = s.keys
    /\ last' = s.last

\* The directory tree the program is started on.
NameD == <<"D">>
NameS == <<"s">>
NameAT == <<"a", ".", "t">>
NameH == <<".", "h">>
NameB == <<"B">>

InitialFs ==
    (<<>> :> DirNode) @@ (<<NameD>> :> DirNode) @@ (<<NameD, NameS>> :> DirNode)
    @@ (<<NameD, NameAT>> :> FileNode(<<104>>)) @@ (<<NameD, NameH>> :> FileNode(<<>>))
    @@ (<<NameD, NameB>> :> FileNode(<<255>>))

StartDirs == {<<NameD>>}

\* App::new on start directory dir.
New(dir, io) ==
    Bind(refresh([fs |-> InitialFs, current_dir |-> dir, start_dir |-> dir,
                  all_entries |-> <<>>, filtered_indices |-> <<>>, selected |-> None,
                  preview |-> PreviewNone, scroll |-> 0, mode |-> "Normal",
                  input |-> <<>>, cursor |-> 0, show_hidden |-> FALSE, message |-> None,
                  clipboard |-> None, git_statuses |-> <<>>, git_cache_dir |-> None,
                  running |-> TRUE, git_called |-> FALSE, git_output |-> <<>>,
                  keys |-> 0,
                  last |-> [op |-> "new", selected |-> None, key |-> Key("None")]], io),
         LAMBDA app : IF app.filtered_indices # <<>>
                      THEN update_preview([app EXCEPT !.selected = Some(0)], io)
                      ELSE app)

\* The collaborators' outcomes drawn for an event of each kind.
IoPreview == {[IoOk EXCEPT !.pv = p] : p \in BOOLEAN}
IoScan == {[IoOk EXCEPT !.read = r] : r \in BOOLEAN}
IoEnter == {[IoOk EXCEPT !.read = r, !.canon = c] : r \in BOOLEAN, c \in BOOLEAN}
IoMutate ==
    {[IoOk EXCEPT !.read = r, !.fail = f, !.desc = d] :
        r \in BOOLEAN, f \in 0..FailPoints, d \in BOOLEAN}

\* The variables hold the fields of s.
Starts(s) ==
    /\ fs = s.fs
    /\ current_dir = s.current_dir
    /\ start_dir = s.start_dir
    /\ all_entries = s.all_entries
    /\ filtered_indices = s.filtered_indices
    /\ selected = s.selected
    /\ preview = s.preview
    /\ scroll = s.scroll
    /\ mode = s.mode
    /\ input = s.input
    /\ cursor = s.cursor
    /\ show_hidden = s.show_hidden
    /\ message = s.message
    /\ clipboard = s.clipboard
    /\ git_statuses = s.git_statuses
    /\ git_cache_dir = s.git_cache_dir
    /\ running = s.running
    /\ git_called = s.git_called
    /\ git_output = s.git_output
    /\ keys = s.keys
    /\ last = s.last

Init == \E dir \in StartDirs : \E s \in {New(dir, IoOk)} : Starts(s) /\ call = NoCall

\* One key press handled by the event loop, which runs until a handler
\* returns false; a run takes at most MaxKeys key presses.
Press(key, io) ==
    /\ running
    /\ keys < MaxKeys
    /\ \E s \in {handle_key_event(St, key, io)} : Becomes([s EXCEPT !.keys = keys + 1])

\* The characters typed into the text buffers.
TextChars == {"B"}

TextKeys ==
    {Key("Esc"), Key("Enter"), Key("Backspace"), Key("Delete"), Key("Left"),
     Key("Right"), Key("Home"), Key("End"), Key("Tab"), Ctrl(Char("u"))}
    \cup {Char(c) : c \in TextChars}

Quit == mode = "Normal" /\ \E key \in {Char("q"), Key("Esc")} : Press(key, IoOk)

Move ==
    /\ mode = "Normal"
    /\ \E key \in {Key("Up"), Key("Down")} : Press(key, IoOk)

Enter ==
    /\ mode = "Normal"
    /\ \E io \in IoEnter : Press(Key("Enter"), io)

GoToParent ==
    /\ mode = "Normal"
    /\ \E io \in IoScan : Press(Char("h"), io)

GoToStart == mode = "Normal" /\ \E io \in IoScan : Press(Char("grave"), io)

StartSearch == mode = "Normal" /\ Press(Char("/"), IoOk)

ToggleHidden == mode = "Normal" /\ Press(Char("H"), IoOk)

YankOpen ==
    /\ mode = "Normal"
    /\ \E key \in {Char("y"), Char("o")}, io \in IoPreview : Press(key, io)

Scroll == mode = "Normal" /\ \E key \in {Key("PageUp"), Key("PageDown")} : Press(key, IoOk)

CopyCut == mode = "Normal" /\ \E key \in {Char("c"), Char("x")} : Press(key, IoOk)

Paste == mode = "Normal" /\ \E io \in IoMutate : Press(Char("v"), io)

StartRename == mode = "Normal" /\ Press(Char("r"), IoOk)

StartDelete == mode = "Normal" /\ Press(Char("d"), IoOk)

StartPath == mode = "Normal" /\ Press(Char("p"), IoOk)

StartNew == mode = "Normal" /\ \E key \in {Char("n"), Char("N")} : Press(key, IoOk)

OpenHelp == mode = "Normal" /\ Press(Char("?"), IoOk)

OtherNormalKey ==
    /\ mode = "Normal"
    /\ Press(Key("Tab"), IoOk)

HelpKey ==
    /\ mode = "Help"
    /\ \E key \in {Char("?"), Key("Esc"), Key("Enter")} :
          Press(key, IoOk)

SearchKey ==
    /\ mode = "Search"
    /\ \E key \in {Key("Esc"), Key("Enter"), Key("Backspace"), Key("Tab"),
                   Ctrl(Key("Up")), Ctrl(Char("j"))}
                  \cup {Char(c) : c \in TextChars} :
          Press(key, IoOk)

\* Esc and the editing keys of the four text-input modes.
EditKey ==
    /\ mode \in {"Rename", "Path", "NewFile", "NewFolder"}
    /\ \E key \in TextKeys \ {Key("Enter")} : Press(key, IoOk)

RenameConfirm == mode = "Rename" /\ \E io \in IoMutate : Press(Key("Enter"), io)

PathConfirm == mode = "Path" /\ \E io \in IoEnter : Press(Key("Enter"), io)

NewConfirm ==
    /\ mode \in {"NewFile", "NewFolder"}
    /\ \E io \in IoMutate : Press(Key("Enter"), io)

DeleteAnswer ==
    /\ mode = "ConfirmDelete"
    /\ \E io \in IoMutate : Press(Char("y"), io)

DeleteOtherKey ==
    /\ mode = "ConfirmDelete"
    /\ \E key \in {Char("n"), Key("Esc"), Key("Down")} :
          Press(key, IoOk)

\* A key event that is no press (a release, or a repeat): the handler leaves
\* the App as it is, and the loop goes on.
NotPress ==
    /\ running
    /\ \E key \in {OfKind(Char("q"), "Release"), OfKind(Key("Enter"), "Repeat")} :
          \E s \in {handle_key_event(St, key, IoOk)} : Becomes(s)

Next ==
    \/ Quit
    \/ Move
    \/ Scroll
    \/ Enter
    \/ GoToParent
    \/ GoToStart
    \/ StartSearch
    \/ ToggleHidden
    \/ YankOpen
    \/ CopyCut
    \/ Paste
    \/ StartRename
    \/ StartDelete
    \/ StartPath
    \/ StartNew
    \/ OpenHelp
    \/ OtherNormalKey
    \/ HelpKey
    \/ SearchKey
    \/ EditKey
    \/ RenameConfirm
    \/ PathConfirm
    \/ NewConfirm
    \/ DeleteAnswer
    \/ DeleteOtherKey
    \/ NotPress

Spec == Init /\ [][Next]_vars

\* ------------------------------------------------------- the merge of statuses
\* get_git_status run on any output of git: up to MaxLines status lines, in
\* any order, each falling under one of two top-level names.
GitStatuses == {"Conflict", "Modified", "Staged", "Untracked", "Ignored"}

GitKeys == {NameB, NameS}

GitOutputs ==
    UNION {[1..n -> {StatusLine(key, status) : key \in GitKeys, status \in GitStatuses}] :
              n \in 0..MaxLines}

\* A cache miss of refresh at the moment git has printed its lines: the
\* status map is still empty.
InitMerge ==
    \E dir \in StartDirs, lines \in GitOutputs :
        \E s \in {New(dir, IoOk)} :
            Starts([s EXCEPT !.git_output = lines, !.git_statuses = <<>>,
                             !.git_cache_dir = None, !.git_called = FALSE])
            /\ call = NoCall

\* The loop of get_git_status over the lines, and the cache set by refresh.
Requery ==
    /\ git_cache_dir = None
    /\ git_statuses' = CollectStatuses(<<>>, git_output)
    /\ git_cache_dir' = Some(current_dir)
    /\ git_called' = TRUE
    /\ UNCHANGED <<fs, current_dir, start_dir, all_entries, filtered_indices,
                   selected, preview, scroll, mode, input, cursor, show_hidden,
                   message, clipboard, git_output, running, keys, last, call>>

NextMerge == Requery

SpecMerge == InitMerge /\ [][NextMerge]_vars

\* ------------------------------------------------- functions run on their own
\* The functions of the program that read no state, each run on arguments
\* drawn from a bounded set: call holds the function, the argument and, once
\* the function has returned, the result.
Pending(fn, args) == {[fn |-> fn, arg |-> a, ret |-> None] : a \in args}

Returns(fn, F(_)) ==
    /\ call.fn = fn
    /\ ~IsSome(call.ret)
    /\ call' = [call EXCEPT !.ret = Some(F(call.arg))]
    /\ UNCHANGED app_vars

Returned(fn) == call.fn = fn /\ IsSome(call.ret)

\* The two-character codes git prints: a column is blank or one of MTADRCU,
\* not both blank, or the code is ?? or !!.
StatusColumns == {" ", "M", "T", "A", "D", "R", "C", "U"}

StatusCodes ==
    ({<<x, y>> : x \in StatusColumns, y \in StatusColumns} \ {<<" ", " ">>})
    \cup {<<"?", "?">>, <<"!", "!">>}

CallStatusOf == Returns("StatusOf", StatusOf)

\* Status lines: a code with a known status, a blank and a path: of a file at
\* the root, beneath s, beneath s/d, beneath t, beneath sa, of a file named
\* a->b, and of renames into and out of s.  A line of three characters has no
\* path.  The scanned directory is the root (no prefix) or s.
LinePaths ==
    {<<"B">>, <<"s", "/", "a">>, <<"s", "/", "d", "/", "a">>, <<"t", "/", "a">>,
     <<"s", "a", "/", "b">>, <<"a", "-", ">", "b">>, <<"s", "/", "a", "-", ">", "b">>,
     <<"a", " ", "-", ">", " ", "s", "/", "b">>,
     <<"s", "/", "a", " ", "-", ">", " ", "t", "/", "b">>,
     <<"s", "/", "a", " ", "-", ">", " ", "s", "/", "d", "/", "b">>}

LineCodes == {<<"?", "?">>, <<"R", " ">>, <<" ", "M">>, <<"R", "M">>, <<"A", " ">>}

StatusLines ==
    {code \o <<" ">> \o path : code \in LineCodes, path \in LinePaths}
    \cup {<<"?", "?", " ">>}

ReduceLineOf(a) == ReduceLine(a.line, a.relative_prefix)

CallReduceLine == Returns("ReduceLine", ReduceLineOf)

\* Buffers for is_text: n bytes, the first k of them the non-text byte bad,
\* the others the text byte good up to the 512th and the byte tail behind it.
Buffer(n, k, bad, good, tail) ==
    [i \in 1..n |-> IF i <= k THEN bad ELSE IF i <= 512 THEN good ELSE tail]

TextBuffers ==
    {Buffer(n, k, bad, good, tail) :
        n \in {0, 1, 6, 19, 20, 21, 100, 512, 520}, k \in 0..MaxNonText,
        bad \in {0, 8, 14, 31}, good \in {9, 13, 27, 32}, tail \in {0, 65}}
    \cup {<<0, 1, 2, 3, 4, 5>>}

CallIsText == Returns("is_text", is_text)

\* The first n bytes of a buffer.
Truncated(bytes, n) == SubSeq(bytes, 1, IF n < Len(bytes) THEN n ELSE Len(bytes))

\* Four-byte fields: 0, 480 and 640 in either byte order, -480 as a
\* little-endian two's complement, and all bits set.
Quads ==
    {<<0, 0, 0, 0>>, <<0, 0, 1, 224>>, <<224, 1, 0, 0>>, <<128, 2, 0, 0>>,
     <<0, 0, 2, 128>>, <<32, 254, 255, 255>>, <<255, 255, 255, 255>>}

\* BMP headers: a signature, 16 bytes up to offset 18, width and height, six
\* more bytes; whole or cut short.
BmpHeaders ==
    {Truncated(sig \o [i \in 1..16 |-> 0] \o w \o h \o <<1, 0, 24, 0, 0, 0>>, n) :
        sig \in {<<66, 77>>, <<66, 78>>, <<0, 0>>}, w \in Quads, h \in Quads,
        n \in 0..MaxHeader}

CallParseBmp == Returns("parse_bmp_dimensions", parse_bmp_dimensions)

\* JPEG buffers: a start-of-image pair, bytes that are no marker, a segment
\* that is no frame header (one of them holds the bytes FF C0 in its data,
\* one declares the length 0 and one the length 65535), a
\* segment with marker m (C0, C2 or C4) holding a precision, height and
\* width, bytes behind it; whole or cut short.
JpegBuffers ==
    {Truncated(b, Len(b) - cut) :
        b \in {soi \o pre \o seg \o <<255, m, 0, 17, 8>> \o h \o w \o post :
                  soi \in {<<255, 216>>, <<255, 217>>},
                  pre \in {<<>>, <<0>>, <<1, 2>>},
                  seg \in {<<>>, <<255, 224, 0, 4, 9, 9>>, <<255, 224, 0, 2>>,
                           <<255, 219, 0, 3, 7>>, <<255, 219, 0, 0>>,
                           <<255, 224, 255, 255>>,
                           <<255, 225, 0, 12, 255, 192, 0, 0, 0, 0, 9, 0, 7, 0>>},
                  m \in {192, 194, 196},
                  h \in {<<1, 224>>, <<0, 0>>, <<255, 255>>},
                  w \in {<<2, 128>>, <<0, 0>>, <<255, 255>>},
                  post \in {<<>>, <<0>>, <<0, 0, 0>>}},
        cut \in 0..MaxCut}
    \cup {<<>>, <<255>>, <<255, 216>>}

CallParseJpeg == Returns("parse_jpeg_dimensions", parse_jpeg_dimensions)

\* PNG headers: eight bytes of signature (the right one, one with a wrong
\* last byte, zeros), the length and type of the first chunk, width and
\* height, eight more bytes; whole or cut short.
PngHeaders ==
    {Truncated(sig \o <<0, 0, 0, 13, 73, 72, 68, 82>> \o w \o h \o [i \in 1..8 |-> 0], n) :
        sig \in {PngSignature, <<137, 80, 78, 71, 13, 10, 26, 11>>, [i \in 1..8 |-> 0]},
        w \in Quads, h \in Quads, n \in 0..MaxHeader}

CallParsePng == Returns("parse_png_dimensions", parse_png_dimensions)

\* Two-byte fields: 0, 320 and 240 in little-endian order, and all bits set.
Pairs == {<<0, 0>>, <<64, 1>>, <<240, 0>>, <<255, 255>>}

\* GIF headers: three bytes of signature, the version, width and height, 22
\* more bytes; whole or cut short.
GifHeaders ==
    {Truncated(sig \o <<56, 57, 97>> \o w \o h \o [i \in 1..22 |-> 0], n) :
        sig \in {<<71, 73, 70>>, <<71, 73, 71>>, <<0, 0, 0>>},
        w \in Pairs, h \in Pairs, n \in 0..MaxHeader}

CallParseGif == Returns("parse_gif_dimensions", parse_gif_dimensions)

\* The match of load_image_preview, on files of every image extension and
\* of none: empty, a few bytes, and a header of each format.
ImageFiles ==
    {<<>>, <<66, 77>>, <<71, 73, 70, 56, 57, 97, 64, 1, 240, 0>>,
     PngSignature \o <<0, 0, 0, 13, 73, 72, 68, 82, 0, 0, 2, 128, 0, 0, 1, 224>>,
     <<255, 216, 255, 192, 0, 17, 8, 1, 224, 2, 128, 3>>,
     <<66, 77>> \o [i \in 1..16 |-> 0] \o <<128, 2, 0, 0, 224, 1, 0, 0>>}

ImageDimensionsOf(a) == ImageDimensions(a.data, a.ext)

CallImageDimensions == Returns("ImageDimensions", ImageDimensionsOf)

\* Files for load_file_preview: a name a or a.ext, with the extension as
\* spelled and as lowercased, and the bytes: none, a text, bytes that are no
\* UTF-8, a binary, headers of images, and a binary and a text of more than
\* MAX_PREVIEW bytes.
FileExtensions ==
    {[ext |-> e, lowered |-> e] : e \in ImageExtensions \cup {<<"t">>, <<"s">>}}
    \cup {[ext |-> <<"P", "N", "G">>, lowered |-> ExtPng],
          [ext |-> <<"G", "i", "f">>, lowered |-> ExtGif],
          [ext |-> <<"T">>, lowered |-> <<"t">>],
          [ext |-> <<>>, lowered |-> <<>>]}

FileBytes ==
    ImageFiles
    \cup {<<104, 105, 10>>, <<104, 195, 169>>, <<104, 255>>, <<104, 195>>,
          <<0, 1, 2, 3, 4, 5>>,
          [i \in 1..(MAX_PREVIEW + 6) |-> IF i <= 40 THEN 0 ELSE 65],
          [i \in 1..(MAX_PREVIEW + 6) |-> IF i <= MAX_PREVIEW THEN 65 ELSE 0]}

\* The file a.ext (a when ext is empty) alone in the root directory.
LoadFilePreviewOf(a) ==
    Bind(IF a.ext = <<>> THEN <<"a">> ELSE <<"a", ".">> \o a.ext, LAMBDA name :
        load_file_preview((<<>> :> DirNode) @@ (<<name>> :> FileNode(a.data)),
                          <<name>>, [IoOk EXCEPT !.pv = a.readable]))

CallLoadFilePreview == Returns("load_file_preview", LoadFilePreviewOf)

\* Lines for highlight_line: up to MaxTokens pieces, each a keyword (if), a
\* type (int), a word that is both in Java (void), a number, a word that
\* starts with a digit, a plain word, an underscore, or one character that
\* is no word character: the two comment characters, the two quotes, a
\* backslash, a blank.
WordIf == <<"i", "f">>
WordInt == <<"i", "n", "t">>
WordVoid == <<"v", "o", "i", "d">>

LineTokens ==
    {WordIf, WordInt, WordVoid, <<"4", "2">>, <<"4", "x">>, <<"x">>, <<"_">>, <<"/">>, <<"#">>,
     <<"\"">>, <<"'">>, <<"\\">>, <<" ">>}

RECURSIVE LinesOf(_)
LinesOf(n) ==
    IF n = 0 THEN {<<>>}
    ELSE LinesOf(n - 1) \cup {l \o t : l \in LinesOf(n - 1), t \in LineTokens}

\* Extensions of the language tables, of the # comments alone, of no table,
\* and none.
SourceExtensions ==
    {<<"r", "s">>, <<"p", "y">>, <<"j", "s">>, <<"g", "o">>, <<"c">>, <<"j", "a", "v", "a">>,
     <<"s", "h">>, <<"y", "a", "m", "l">>, <<"t", "o", "m", "l">>, <<"t">>, <<>>}

\* highlight_code's call of highlight_line on one line of a file of extension ext.
HighlightLineOf(a) == highlight_line(a.line, get_keywords(a.ext), get_types(a.ext), a.ext)

CallHighlightLine == Returns("highlight_line", HighlightLineOf)

\* colorize_word on lists that share a word or do not.
ColorizeWordOf(a) == colorize_word(a.word, a.keywords, a.types)

CallColorizeWord == Returns("colorize_word", ColorizeWordOf)

\* The function and argument drawn.
PureCalls ==
    \/ call \in Pending("StatusOf", StatusCodes)
    \/ call \in Pending("is_text", TextBuffers)
    \/ call \in Pending("parse_bmp_dimensions", BmpHeaders)
    \/ call \in Pending("parse_jpeg_dimensions", JpegBuffers)
    \/ call \in Pending("parse_png_dimensions", PngHeaders)
    \/ call \in Pending("parse_gif_dimensions", GifHeaders)
    \/ call \in Pending("ImageDimensions",
                        [data : ImageFiles, ext : ImageExtensions \cup {<<"t">>}])
    \/ call \in Pending("load_file_preview",
                        {[ext |-> x.ext, lowered |-> x.lowered, data |-> d,
                          readable |-> r] :
                             x \in FileExtensions, d \in FileBytes, r \in BOOLEAN})
    \/ call \in Pending("highlight_line",
                        [line : LinesOf(MaxTokens), ext : SourceExtensions])
    \/ call \in Pending("colorize_word",
                        [word : {WordIf, WordInt, WordVoid, <<"4", "2">>, <<"4", "x">>,
                                 <<"x">>, <<"_">>},
                         keywords : SUBSET {WordIf, WordVoid, <<"4", "2">>},
                         types : SUBSET {WordInt, WordVoid, <<"4", "2">>}])
    \/ call \in Pending("ReduceLine",
                        [line : StatusLines, relative_prefix : {None, Some(<<"s">>)}])

InitPure ==
    /\ \E dir \in StartDirs : \E s \in {New(dir, IoOk)} : Starts(s)
    /\ PureCalls

NextPure ==
    \/ CallStatusOf
    \/ CallReduceLine
    \/ CallIsText
    \/ CallParseBmp
    \/ CallParseJpeg
    \/ CallParsePng
    \/ CallParseGif
    \/ CallImageDimensions
    \/ CallLoadFilePreview
    \/ CallHighlightLine
    \/ CallColorizeWord

SpecPure == InitPure /\ [][NextPure]_vars

\* --------------------------------------------------------------- properties

\* The entry list a successful scan of the current directory yields.
FreshScan ==
    (IF IsSome(parent(current_dir)) THEN <<ParentEntry>> ELSE <<>>)
        \o Scanned(fs, current_dir, read_dir(fs, current_dir, FALSE), git_statuses)

\* Every index of the visible list is a position of the entry list.
IndicesValid ==
    \A i \in 1..Len(filtered_indices) : filtered_indices[i] < Len(all_entries)

\* The entries of the entry list after the optional "..".
RealEntries == SelectSeq(all_entries, LAMBDA e : e.name # DotDot)

IsYes(key) == IsChar(key, "y") \/ IsChar(key, "Y")

IsNo(key) == IsChar(key, "n") \/ IsChar(key, "N") \/ key.code = "Esc"

\* C1: in every reachable state the visible index list is strictly
\* increasing, each index is a valid position of the entry list, each listed
\* entry other than ".." is non-hidden unless show_hidden is set and, in Search
\* mode with a non-empty query, has a lowercase name containing the lowercased
\* query; and ".." is listed whenever the entry list holds it.
C1_FilterIsSubsequence ==
    /\ IndicesValid
    /\ \A i \in 1..(Len(filtered_indices) - 1) :
          filtered_indices[i] < filtered_indices[i + 1]
    /\ \A i \in 1..Len(filtered_indices) :
          filtered_indices[i] < Len(all_entries) =>
             LET e == all_entries[filtered_indices[i] + 1]
             IN  e.name # DotDot =>
                    /\ (show_hidden \/ ~e.is_hidden)
                    /\ ((mode = "Search" /\ input # <<>>) =>
                          contains(to_lowercase(e.name), to_lowercase(input)))
    /\ \A k \in 1..Len(all_entries) :
          all_entries[k].name = DotDot =>
             \E i \in 1..Len(filtered_indices) : filtered_indices[i] = k - 1

\* C2: at the end of a key event that starts Search (and so clears the query
\* buffer), on an entry list that is a true scan of the current directory with
\* a valid visible list, the visible index list equals the filter derivation
\* computed from the current entry list, query, show_hidden and mode.
C2_StartSearchRefilters ==
    (last.op = "start_search" /\ all_entries = FreshScan /\ IndicesValid) =>
        filtered_indices =
            FilterFrom(all_entries, 1, to_lowercase(input), show_hidden, mode)

\* C3: in every key event that re-runs the filter alone (typing or backspacing
\* in Search, cancelling Search, toggling hidden files): a selection at or
\* beyond the new visible length becomes 0 when the new list is non-empty and
\* nothing when it is empty; no selection becomes 0 when the new list is
\* non-empty and stays nothing otherwise; a selection still in range stays.
C3_SelectionRepair ==
    [][last'.op \in {"update_search", "backspace_search", "cancel_search", "toggle_hidden"} =>
          IF IsSome(selected)
          THEN IF Unwrap(selected) >= Len(filtered_indices')
               THEN selected' = (IF Len(filtered_indices') = 0 THEN None ELSE Some(0))
               ELSE selected' = selected
          ELSE selected' = (IF Len(filtered_indices') # 0 THEN Some(0) ELSE None)]_vars

\* A key typed in Search shortened the visible list below the selected
\* position, and the selection went to the first entry.
C3_Witness ==
    /\ last.op = "update_search"
    /\ IsSome(last.selected)
    /\ filtered_indices # <<>>
    /\ Unwrap(last.selected) >= Len(filtered_indices)
    /\ selected = Some(0)

\* C4: in every reachable state the entry list holds an entry named ".." iff
\* the current directory has a parent; when present it is the first entry, is
\* a directory, is not marked hidden, carries no git status and is in the
\* visible list whatever show_hidden and the query are.
C4_ParentEntryKept ==
    /\ (\E k \in 1..Len(all_entries) : all_entries[k].name = DotDot)
          <=> IsSome(parent(current_dir))
    /\ \A k \in 1..Len(all_entries) :
          all_entries[k].name = DotDot =>
             /\ k = 1
             /\ all_entries[k].is_dir
             /\ ~all_entries[k].is_hidden
             /\ all_entries[k].git_status = None
             /\ \E i \in 1..Len(filtered_indices) : filtered_indices[i] = k - 1

\* C5: in the entry list of every scan, for any two adjacent real entries a, b:
\* a is not a file followed by a directory b, and when both have the same kind
\* lower(a.name) <= lower(b.name).
C5_ScanIsSorted ==
    \A k \in 1..(Len(RealEntries) - 1) :
        /\ ~(~RealEntries[k].is_dir /\ RealEntries[k + 1].is_dir)
        /\ (RealEntries[k].is_dir = RealEntries[k + 1].is_dir =>
              ~StrLess(to_lowercase(RealEntries[k + 1].name),
                       to_lowercase(RealEntries[k].name)))

\* The scan after a paste lists a directory first and the copy "a_1.t" before
\* the file "B", whose capital letter would order it first without case folding.
C5_Witness ==
    /\ last.op = "paste_file"
    /\ Len(RealEntries) >= 5
    /\ RealEntries[1].is_dir
    /\ \E k \in 1..(Len(RealEntries) - 1) :
          /\ RealEntries[k].name = <<"a", "_", "1", ".", "t">>
          /\ RealEntries[k + 1].name = <<"B">>

\* C6: confirm_delete runs only for the key y or Y in ConfirmDelete mode, and
\* outside the moves of paste and rename no other key event makes a path
\* disappear; ConfirmDelete is entered only from Normal mode by d with a
\* selected entry other than "..", which the prompt names; while the prompt is
\* up the selected entry is the one it names, a key that is no answer changes
\* nothing of selection, lists, directory, filesystem or mode, y or Y removes
\* paths only at or under that entry and leaves every other path as it was,
\* n, N and Esc leave the filesystem unchanged, and each answer ends in Normal
\* mode whether the deletion succeeded or failed.
C6_DeleteNeedsConfirmation ==
    [][/\ (last'.op = "confirm_delete" => (mode = "ConfirmDelete" /\ IsYes(last'.key)))
       /\ (((DOMAIN fs) \ (DOMAIN fs') # {} /\ last'.op \notin {"paste_file", "confirm_rename"})
              => last'.op = "confirm_delete")
       /\ ((mode' = "ConfirmDelete" /\ mode # "ConfirmDelete") =>
              /\ mode = "Normal"
              /\ last'.key = Char("d")
              /\ IsSome(selected_entry(St))
              /\ Unwrap(selected_entry(St)).name # DotDot
              /\ message' = Msg("Delete? (y/n)", Unwrap(selected_entry(St)).name))
       /\ (mode = "ConfirmDelete" =>
              /\ IsSome(selected_entry(St))
              /\ message = Msg("Delete? (y/n)", Unwrap(selected_entry(St)).name)
              /\ CASE IsYes(last'.key) ->
                        /\ mode' = "Normal"
                        /\ last'.op = "confirm_delete"
                        /\ \A p \in (DOMAIN fs) \ (DOMAIN fs') :
                              starts_with(p, join(current_dir, Unwrap(message).arg))
                        /\ \A p \in DOMAIN fs' : p \in DOMAIN fs /\ fs'[p] = fs[p]
                        /\ (message' = Msg("Deleted successfully", <<>>) =>
                              join(current_dir, Unwrap(message).arg) \notin DOMAIN fs')
                   [] IsNo(last'.key) -> mode' = "Normal" /\ fs' = fs
                   [] OTHER -> UNCHANGED <<mode, fs, selected, filtered_indices,
                                           all_entries, current_dir, message>>)]_vars

\* The key y answered the prompt and the deletion succeeded.
C6_Witness ==
    /\ last.op = "confirm_delete"
    /\ last.key = Char("y")
    /\ mode = "Normal"
    /\ message = Msg("Deleted successfully", <<>>)

\* C7: after a confirmed deletion succeeds and the directory is scanned again,
\* if the position selected before the deletion is out of range of the new
\* visible list and non-zero, the selection is that position minus one.
C7_StepBackAfterDelete ==
    (/\ last.op = "confirm_delete"
     /\ message = Msg("Deleted successfully", <<>>)
     /\ all_entries = FreshScan
     /\ IsSome(last.selected)
     /\ Unwrap(last.selected) >= Len(filtered_indices)
     /\ Unwrap(last.selected) > 0)
        => selected = Some(Unwrap(last.selected) - 1)

\* Where the path p under src is found once src has been moved to dst.
MovedTo(p, src, dst) == dst \o SubSeq(p, Len(src) + 1, Len(p))

\* <stem>_<k><.ext> for a file name.
Suffixed(name, k) == file_stem(name) \o <<"_">> \o ToDecimal(k) \o DotExtension(name)

\* C8: a paste that is carried out never overwrites: its destination did not
\* exist before, it is the source's file name when that is free in the current
\* directory and otherwise <stem>_<k><.ext> for the first k = 1, 2, ... that
\* is free; a copy holds the source's content; every path that existed before
\* keeps its content, except that a cut's source is found, unchanged, under
\* the destination; a paste that fails leaves every existing path as it was.
C8_PasteNeverOverwrites ==
    [][(last'.op = "paste_file" /\ IsSome(clipboard)) =>
          /\ (IsSome(message') /\ Unwrap(message').kind = "Pasted" =>
                /\ \A p \in DOMAIN fs : p \in DOMAIN fs' /\ fs'[p] = fs[p]
                /\ fs'[join(current_dir, Unwrap(message').arg)] = fs[Unwrap(clipboard).path])
          /\ (IsSome(message') /\ Unwrap(message').kind = "Moved" =>
                \A p \in DOMAIN fs :
                    IF starts_with(p, Unwrap(clipboard).path)
                    THEN /\ MovedTo(p, Unwrap(clipboard).path,
                                    join(current_dir, Unwrap(message').arg)) \in DOMAIN fs'
                         /\ fs'[MovedTo(p, Unwrap(clipboard).path,
                                        join(current_dir, Unwrap(message').arg))] = fs[p]
                    ELSE p \in DOMAIN fs' /\ fs'[p] = fs[p])
          /\ (IsSome(message') /\ Unwrap(message').kind \in {"Pasted", "Moved"} =>
                /\ join(current_dir, Unwrap(message').arg) \notin DOMAIN fs
                /\ join(current_dir, Unwrap(message').arg) \in DOMAIN fs'
                /\ IF join(current_dir, Unwrap(file_name(Unwrap(clipboard).path)))
                         \notin DOMAIN fs
                   THEN Unwrap(message').arg = Unwrap(file_name(Unwrap(clipboard).path))
                   ELSE \E k \in 1..Cardinality(DOMAIN fs) :
                          /\ Unwrap(message').arg =
                                Suffixed(Unwrap(file_name(Unwrap(clipboard).path)), k)
                          /\ \A j \in 1..(k - 1) :
                                join(current_dir,
                                     Suffixed(Unwrap(file_name(Unwrap(clipboard).path)), j))
                                    \in DOMAIN fs)
          /\ (IsSome(message') /\ Unwrap(message').kind \notin {"Pasted", "Moved"} =>
                \A p \in DOMAIN fs : p \in DOMAIN fs' /\ fs'[p] = fs[p])]_vars

\* The second paste of the copied file "a.t" beside itself made "a_2.t", and
\* the original and the first copy are still there.
C8_Witness ==
    /\ last.op = "paste_file"
    /\ message = Msg("Pasted", <<"a", "_", "2", ".", "t">>)
    /\ join(current_dir, <<"a", ".", "t">>) \in DOMAIN fs
    /\ join(current_dir, <<"a", "_", "1", ".", "t">>) \in DOMAIN fs
    /\ join(current_dir, <<"a", "_", "2", ".", "t">>) \in DOMAIN fs

\* The clipboard cases paste_file rejects.
NothingToPaste == ~IsSome(clipboard)

SourceGone == IsSome(clipboard) /\ Unwrap(clipboard).path \notin DOMAIN fs

AlreadyHere ==
    /\ IsSome(clipboard)
    /\ Unwrap(clipboard).is_cut
    /\ parent(Unwrap(clipboard).path) = Some(current_dir)

IntoItself ==
    /\ IsSome(clipboard)
    /\ is_dir(fs, Unwrap(clipboard).path)
    /\ starts_with(join(current_dir, Unwrap(file_name(Unwrap(clipboard).path))),
                   Unwrap(clipboard).path)

\* C9: a paste with an empty clipboard, with a source that no longer exists,
\* with a cut source whose parent is the current directory, or with a source
\* directory that the destination lies in, sets the status message of its case
\* and changes nothing of the filesystem, mode, entry list, visible list or
\* selection, and scans nothing (no git query, git cache and preview untouched).
C9_PasteRejected ==
    [][(last'.op = "paste_file"
          /\ (NothingToPaste \/ SourceGone \/ AlreadyHere \/ IntoItself)) =>
          /\ message' =
                (IF NothingToPaste THEN Msg("Nothing to paste", <<>>)
                 ELSE IF SourceGone THEN Msg("Source no longer exists", <<>>)
                 ELSE IF AlreadyHere THEN Msg("Item is already in this directory", <<>>)
                 ELSE Msg("Cannot copy a directory into itself", <<>>))
          /\ ~git_called'
          /\ UNCHANGED <<fs, mode, current_dir, all_entries, filtered_indices, selected,
                         git_statuses, git_cache_dir, preview>>]_vars

\* A copied directory was pasted inside itself and the paste was rejected.
C9_Witness ==
    /\ last.op = "paste_file"
    /\ IsSome(clipboard)
    /\ current_dir = Unwrap(clipboard).path
    /\ is_dir(fs, current_dir)
    /\ message = Msg("Cannot copy a directory into itself", <<>>)

\* C10: a paste is rejected as a directory copied into itself only when the
\* current directory is the source directory or one of its descendants; and a
\* copied directory pasted into its own parent, when no filesystem call fails,
\* is pasted under the suffixed name <name>_<k>.
C10_OnlyDescendantsRejected ==
    /\ (last.op = "paste_file" /\ message = Msg("Cannot copy a directory into itself", <<>>))
          => (IsSome(clipboard) /\ starts_with(current_dir, Unwrap(clipboard).path))
    /\ (/\ last.op = "paste_file"
        /\ IsSome(clipboard)
        /\ ~Unwrap(clipboard).is_cut
        /\ is_dir(fs, Unwrap(clipboard).path)
        /\ parent(Unwrap(clipboard).path) = Some(current_dir)
        /\ message # Msg("Paste failed", <<>>))
          => \E k \in 1..Cardinality(DOMAIN fs) :
                message = Msg("Pasted", Suffixed(Unwrap(file_name(Unwrap(clipboard).path)), k))

\* What a scan that fails at read_dir leaves in the entry list.
FailedScan == IF IsSome(parent(current_dir)) THEN <<ParentEntry>> ELSE <<>>

\* The kind of the status message, "" when there is none.
MessageKind == IF IsSome(message) THEN Unwrap(message).kind ELSE ""

\* The key event rescanned the current directory with a fresh git query and
\* loaded the preview of the selection again.
RescannedAndPreviewed ==
    /\ git_called
    /\ git_cache_dir = Some(current_dir)
    /\ all_entries \in {FreshScan, FailedScan}
    /\ scroll = 0
    /\ \E io \in IoMutate : preview = PreviewOf(St, selected_entry(St), io)

\* C11: the clipboard holds at most one entry; copy or cut on a selected real
\* entry replaces it by (current_dir/name, cut flag); a paste that moved a cut
\* source empties it, a paste that copied leaves it as it was, and so does a
\* paste whose filesystem call failed; a paste that succeeded has invalidated
\* the git cache (git is queried again), rescanned the current directory and
\* loaded the preview again within the same key event.
C11_ClipboardLifecycle ==
    /\ [](/\ Len(clipboard) <= 1
          /\ ((last.op = "paste_file" /\ MessageKind \in {"Moved", "Pasted"})
                 => RescannedAndPreviewed))
    /\ [][/\ (last'.op \in {"copy_file", "cut_file"} =>
                IF IsSome(selected_entry(St)) /\ Unwrap(selected_entry(St)).name # DotDot
                THEN clipboard' = Some([path |-> join(current_dir,
                                                       Unwrap(selected_entry(St)).name),
                                        is_cut |-> (last'.op = "cut_file")])
                ELSE clipboard' = clipboard)
          /\ (last'.op = "paste_file" =>
                /\ (MessageKind' = "Moved" => clipboard' = None)
                /\ (MessageKind' = "Pasted" => clipboard' = clipboard /\ IsSome(clipboard))
                /\ (MessageKind' = "Paste failed" =>
                      clipboard' = clipboard /\ IsSome(clipboard)))]_vars

\* A cut file was pasted into another directory: the clipboard is empty and
\* the scan of that directory lists the file.
C11_Witness ==
    /\ last.op = "paste_file"
    /\ MessageKind = "Moved"
    /\ clipboard = None
    /\ all_entries = FreshScan
    /\ \E k \in 1..Len(all_entries) : all_entries[k].name = Unwrap(message).arg

\* The selected entry is the ".." pseudo-entry.
ParentSelected ==
    IsSome(selected_entry(St)) /\ Unwrap(selected_entry(St)).name = DotDot

\* C12: with ".." selected, copy and cut leave the clipboard as it was, rename
\* and delete are refused with a message in Normal mode, and open-with-default
\* changes nothing; a clipboard entry, whenever one is set, is a child of the
\* current directory (so never its parent); and a rename or deletion removes
\* paths only strictly below the current directory, leaving the current
\* directory and every ancestor of it as they were.
C12_ParentEntryNeverTarget ==
    [][/\ (ParentSelected /\ last'.op \in {"copy_file", "cut_file"} =>
             clipboard' = clipboard /\ fs' = fs)
       /\ (ParentSelected /\ last'.op = "start_rename" =>
             mode' = "Normal" /\ fs' = fs /\ message' = Msg("Cannot rename '..'", <<>>))
       /\ (ParentSelected /\ last'.op = "start_delete" =>
             mode' = "Normal" /\ fs' = fs /\ message' = Msg("Cannot delete '..'", <<>>))
       /\ (ParentSelected /\ last'.op = "open_with_default" =>
             /\ message' = None
             /\ UNCHANGED <<fs, mode, clipboard, current_dir, all_entries,
                            filtered_indices, selected, preview>>)
       /\ ((clipboard' # clipboard /\ IsSome(clipboard')) =>
             /\ parent(Unwrap(clipboard').path) = Some(current_dir)
             /\ Unwrap(clipboard').path # current_dir
             /\ parent(current_dir) # Some(Unwrap(clipboard').path))
       /\ (last'.op \in {"confirm_rename", "confirm_delete"} =>
             /\ \A p \in (DOMAIN fs) \ (DOMAIN fs') :
                   starts_with(p, current_dir) /\ p # current_dir
             /\ \A p \in DOMAIN fs :
                   starts_with(current_dir, p) => (p \in DOMAIN fs' /\ fs'[p] = fs[p]))]_vars

\* Delete was asked for with ".." selected and was refused.
C12_Witness ==
    /\ last.op = "start_delete"
    /\ ParentSelected
    /\ mode = "Normal"
    /\ message = Msg("Cannot delete '..'", <<>>)

\* C13: confirming a rename whose new name is the selected entry's current name
\* changes nothing of the filesystem, the git cache, the entry list, the visible
\* list, the selection and the preview, queries git not at all, and ends in
\* Normal mode with an empty input buffer and no message.
C13_RenameToSameName ==
    [][(/\ last'.op = "confirm_rename"
        /\ IsSome(selected_entry(St))
        /\ input = Unwrap(selected_entry(St)).name) =>
          /\ UNCHANGED <<fs, git_cache_dir, git_statuses, current_dir, all_entries,
                         filtered_indices, selected, preview, scroll>>
          /\ ~git_called'
          /\ mode' = "Normal"
          /\ input' = <<>>
          /\ message' = None]_vars

\* A rename was confirmed with the name left as it was: no message, Normal
\* mode, and the entry is still selected under its name.
C13_Witness ==
    /\ last.op = "confirm_rename"
    /\ IsSome(selected_entry(St))
    /\ join(current_dir, Unwrap(selected_entry(St)).name) \in DOMAIN fs
    /\ mode = "Normal"
    /\ input = <<>>
    /\ message = None
    /\ ~git_called

\* C14: confirming a rename with an empty name, or one whose rename call
\* fails, sets a message and leaves the filesystem, the entry list, the visible
\* list, the selection and the git cache as they were, in Rename mode; a new,
\* non-empty name ends in one of the two outcomes; a rename that succeeded
\* has invalidated the git cache, rescanned, loaded the preview again and
\* returned to Normal mode.
C14_RenameOutcomes ==
    /\ []((last.op = "confirm_rename" /\ MessageKind = "Renamed to")
             => (mode = "Normal" /\ RescannedAndPreviewed))
    /\ [][(last'.op = "confirm_rename" /\ IsSome(selected_entry(St))) =>
             /\ (input = <<>> => message' = Msg("Name cannot be empty", <<>>))
             /\ ((input # <<>> /\ input # Unwrap(selected_entry(St)).name) =>
                   MessageKind' \in {"Rename failed", "Renamed to"})
             /\ ((input = <<>> \/ MessageKind' = "Rename failed") =>
                   /\ mode' = "Rename"
                   /\ ~git_called'
                   /\ UNCHANGED <<fs, git_cache_dir, git_statuses, current_dir,
                                  all_entries, filtered_indices, selected, input>>)]_vars

\* A rename to a new name was confirmed and the rename call failed.
C14_Witness ==
    /\ last.op = "confirm_rename"
    /\ MessageKind = "Rename failed"
    /\ mode = "Rename"
    /\ input # <<>>
    /\ join(current_dir, input) \notin DOMAIN fs

\* The key event confirmed a new file or a new folder.
ConfirmedNew == last.op \in {"confirm_new_file", "confirm_new_folder"}

\* The create was turned down: nothing is created, the listing state is as it
\* was and the mode is kept.
CreateRefused ==
    /\ mode' = mode
    /\ ~git_called'
    /\ UNCHANGED <<fs, git_cache_dir, git_statuses, current_dir, all_entries,
                   filtered_indices, selected, input>>

\* Exactly one new entry of the requested kind, named by the input buffer, is
\* created in the current directory, and the mode is Normal with input and
\* cursor reset.
CreatedOne ==
    /\ DOMAIN fs' = (DOMAIN fs) \cup {join(current_dir, input)}
    /\ join(current_dir, input) \notin DOMAIN fs
    /\ \A p \in DOMAIN fs : fs'[p] = fs[p]
    /\ fs'[join(current_dir, input)].is_dir = (last'.op = "confirm_new_folder")
    /\ mode' = "Normal"
    /\ input' = <<>>
    /\ cursor' = 0

KeptOrMoved(p, src, dst) ==
    \/ p \in DOMAIN fs' /\ fs'[p] = fs[p]
    \/ /\ starts_with(p, src)
       /\ MovedTo(p, src, dst) \in DOMAIN fs'
       /\ fs'[MovedTo(p, src, dst)] = fs[p]
       /\ MovedTo(p, src, dst) \notin DOMAIN fs

\* C16: no create, rename or paste replaces or removes an existing entry: after
\* such a key event every path that existed keeps its content, or was moved
\* with its content by the rename or the cut to a path that did not exist; and
\* a rename or create to a name that exists in the current directory sets a
\* message and leaves the filesystem as it was.
C16_NothingReplaced ==
    [][/\ (last'.op \in {"confirm_new_file", "confirm_new_folder"} =>
             /\ \A p \in DOMAIN fs : p \in DOMAIN fs' /\ fs'[p] = fs[p]
             /\ (join(current_dir, input) \in DOMAIN fs =>
                   fs' = fs /\ MessageKind' = "already exists"))
       /\ ((last'.op = "confirm_rename" /\ IsSome(selected_entry(St))) =>
             /\ \A p \in DOMAIN fs :
                   KeptOrMoved(p, join(current_dir, Unwrap(selected_entry(St)).name),
                               join(current_dir, input))
             /\ ((input # Unwrap(selected_entry(St)).name
                    /\ join(current_dir, input) \in DOMAIN fs) =>
                   fs' = fs /\ IsSome(message') /\ MessageKind' # "Renamed to"))
       /\ ((last'.op = "paste_file" /\ IsSome(clipboard)) =>
             \A p \in DOMAIN fs :
                 IF MessageKind' = "Moved"
                 THEN KeptOrMoved(p, Unwrap(clipboard).path,
                                  join(current_dir, Unwrap(message').arg))
                 ELSE p \in DOMAIN fs' /\ fs'[p] = fs[p])]_vars

\* C17: whatever fails in the filesystem, in every reachable state every index
\* of the visible list is a position of the entry list, the selection is
\* nothing or a position of the visible list, and the entry list describes the
\* current directory: it holds ".." iff the directory has a parent and every
\* other entry names a child the directory has.
C17_FailureKeepsStateConsistent ==
    /\ IndicesValid
    /\ (IsSome(selected) => Unwrap(selected) < Len(filtered_indices))
    /\ (\E k \in 1..Len(all_entries) : all_entries[k].name = DotDot)
          <=> IsSome(parent(current_dir))
    /\ \A k \in 1..Len(RealEntries) :
          join(current_dir, RealEntries[k].name) \in DOMAIN fs

\* Key events that are no presses.
NotPressed ==
    {OfKind(key, kind) :
        key \in {Char("q"), Key("Esc"), Key("Enter"), Char("y"), Char("d"), Char("v"),
                 Char("B"), Key("Backspace")},
        kind \in {"Release", "Repeat"}}

Mutated ==
    \/ last.op = "paste_file" /\ MessageKind \in {"Moved", "Pasted"}
    \/ last.op \in {"confirm_new_file", "confirm_new_folder"} /\ MessageKind = "Created"
    \/ last.op = "confirm_rename" /\ MessageKind = "Renamed to"
    \/ last.op = "confirm_delete" /\ MessageKind = "Deleted successfully"

\* C19: the cached git directory is the current directory after every key
\* event, and the statuses are those git reports for it; a key event queries
\* git exactly when it moved to another directory or was a successful create,
\* delete, rename or paste: a rescan of the unchanged directory, a failed file
\* operation and a filter or selection change query nothing.
C19_GitCacheProtocol ==
    /\ [](/\ git_cache_dir = Some(current_dir)
          /\ git_statuses = get_git_status(current_dir))
    /\ [][/\ git_called' <=> (current_dir' # current_dir \/ Mutated')
          /\ (last'.op = "confirm_path" /\ current_dir' = current_dir => ~git_called')
          /\ (last'.op \in {"paste_file", "confirm_new_file", "confirm_new_folder",
                            "confirm_rename", "confirm_delete"} /\ ~Mutated'
                => ~git_called' /\ UNCHANGED <<git_statuses, git_cache_dir>>)
          /\ (last'.op \in {"move_up", "move_down", "toggle_hidden", "start_search",
                            "update_search", "backspace_search", "confirm_search",
                            "cancel_search"}
                => ~git_called' /\ UNCHANGED <<git_statuses, git_cache_dir>>)]_vars

\* A confirmed delete has succeeded and queried git for the unchanged directory.
C19_Witness ==
    /\ last.op = "confirm_delete"
    /\ MessageKind = "Deleted successfully"
    /\ git_called
    /\ git_cache_dir = Some(current_dir)

\* The statuses the lines report for the files under key.
StatusesOf(lines, key) ==
    {lines[i].status : i \in {j \in DOMAIN lines : lines[j].entry_key = key}}

\* The severities, lowest first.
SeverityOrder == <<"Ignored", "Untracked", "Staged", "Modified", "Conflict">>

Severity(status) == CHOOSE i \in DOMAIN SeverityOrder : SeverityOrder[i] = status

\* The most severe status of a non-empty set.
MostSevere(S) == CHOOSE x \in S : \A y \in S : Severity(x) >= Severity(y)

\* C20: whatever lines git printed, in whatever order and however often
\* repeated, the status map holds for each top-level name with a line the most
\* severe of its statuses (Conflict > Modified > Staged > Untracked > Ignored)
\* and holds nothing for a name without a line; merging the same lines once
\* more changes nothing.
C20_MergeKeepsMostSevere ==
    git_called =>
    /\ \A key \in GitKeys :
          IF StatusesOf(git_output, key) = {} THEN key \notin DOMAIN git_statuses
          ELSE /\ key \in DOMAIN git_statuses
               /\ git_statuses[key] = MostSevere(StatusesOf(git_output, key))
    /\ CollectStatuses(git_statuses, git_output) = git_statuses

\* Three lines under s, the most severe in the middle and one repeated.
C20_Witness ==
    /\ git_called
    /\ git_output = <<StatusLine(NameS, "Untracked"), StatusLine(NameS, "Conflict"),
                      StatusLine(NameS, "Untracked")>>
    /\ git_statuses = (NameS :> "Conflict")

\* The status the classification of the two-character codes is stated to give.
StatedStatus(s) ==
    IF s = <<"?", "?">> THEN "Untracked"
    ELSE IF s = <<"!", "!">> THEN "Ignored"
    ELSE IF s \in {<<"U", "U">>, <<"A", "A">>, <<"D", "D">>} THEN "Conflict"
    ELSE IF s[2] = " " /\ s[1] \in {"A", "M", "D", "R"} THEN "Staged"
    ELSE "Modified"

\* C21: every two-character code is classified: ?? is Untracked, !! Ignored,
\* UU, AA and DD Conflict, A, M, D or R before a blank Staged and every other
\* code Modified, so that every status line contributes a status.
C21_EveryCodeClassified ==
    Returned("StatusOf") => Unwrap(call.ret) = Some(StatedStatus(call.arg))

\* The path a status line is stated to name: for a line with a rename code
\* (R in a column) what follows the arrow, else all that follows the code.
StatedPath(line) ==
    Bind(trim(SubSeq(line, 4, Len(line))), LAMBDA path :
        Bind(find(path, <<" ", "-", ">", " ">>), LAMBDA pos :
            IF "R" \in {line[1], line[2]} /\ IsSome(pos)
            THEN SubSeq(path, Unwrap(pos) + 5, Len(path))
            ELSE path))

\* The path relative to the scanned directory, None when it lies outside.
Beneath(path, relative_prefix) ==
    IF ~IsSome(relative_prefix) THEN Some(path)
    ELSE IF starts_with(path, Unwrap(relative_prefix) \o <<"/">>)
    THEN Some(SubSeq(path, Len(Unwrap(relative_prefix)) + 2, Len(path)))
    ELSE None

FirstComponent(path) ==
    Bind(find(path, <<"/">>), LAMBDA pos :
        IF IsSome(pos) THEN SubSeq(path, 1, Unwrap(pos)) ELSE path)

\* C22: a status line contributes the first path component beneath the scanned
\* directory of its path (of the destination when it is a rename line) as its
\* key when the path lies under the scanned directory, and no key when it lies
\* outside; only lines with a rename code are split at the arrow.
C22_KeysLieBeneath ==
    Returned("ReduceLine") /\ Len(call.arg.line) >= 4 =>
        Bind(Beneath(StatedPath(call.arg.line), call.arg.relative_prefix), LAMBDA rel :
            IF IsSome(rel) /\ Unwrap(rel) # <<>>
            THEN /\ IsSome(Unwrap(call.ret))
                 /\ Unwrap(Unwrap(call.ret)).entry_key = FirstComponent(Unwrap(rel))
            ELSE Unwrap(call.ret) = None)

\* The bytes counted against a text: below 0x09, or between 0x0D and 0x20
\* and not 0x1B.
CountedByte(b) == b < 9 \/ (13 < b /\ b < 32 /\ b # 27)

\* The number of counted bytes among the first n of data.
CountedAmong(data, n) == Cardinality({i \in 1..n : CountedByte(data[i])})

\* C23: is_text is true exactly for the empty buffer and for a buffer in which,
\* among the first n = min(len, 512) bytes, the counted bytes c satisfy
\* 100 * c < 5 * n; the bytes behind the first 512 play no part; the six bytes
\* 0x00..0x05 are binary.
C23_TextClassifier ==
    Returned("is_text") =>
        Bind(IF Len(call.arg) < 512 THEN Len(call.arg) ELSE 512, LAMBDA n :
            /\ Unwrap(call.ret) =
                  (call.arg = <<>> \/ 100 * CountedAmong(call.arg, n) < 5 * n)
            /\ (call.arg = <<0, 1, 2, 3, 4, 5>> => Unwrap(call.ret) = FALSE))

\* A buffer of 520 bytes classified as text although the eight bytes behind
\* the 512th are all counted ones, with 25 counted bytes among the first 512.
C23_Witness ==
    /\ Returned("is_text")
    /\ call.arg = Buffer(520, 25, 0, 9, 0)
    /\ Unwrap(call.ret) = TRUE

\* The little-endian u32 of the four bytes of data from the 0-based offset at.
LittleEndian32(data, at) ==
    U32(data[at + 4] * 256 + data[at + 3], data[at + 2] * 256 + data[at + 1])

\* The absolute value of v read as a signed 32-bit number (two's complement).
AbsSigned(v) ==
    IF v.hi < 32768 THEN v
    ELSE U32((65535 - v.hi + (IF v.lo = 0 THEN 1 ELSE 0)) % 65536, (65536 - v.lo) % 65536)

\* C24: of a buffer of at least 26 bytes that starts with BM, the width is the
\* little-endian u32 at offset 18, the height the absolute value of the
\* little-endian signed 32-bit number at offset 22, and the tag BMP.
C24_BmpHeightIsAbsolute ==
    (/\ Returned("parse_bmp_dimensions")
     /\ Len(call.arg) >= 26
     /\ SubSeq(call.arg, 1, 2) = <<66, 77>>)
    => Unwrap(call.ret) = [width |-> LittleEndian32(call.arg, 18),
                           height |-> AbsSigned(LittleEndian32(call.arg, 22)),
                           format |-> "BMP"]

\* The big-endian u16 of the two bytes of data from the 0-based offset at.
BigEndian16(data, at) == data[at + 1] * 256 + data[at + 2]

ZeroJpeg == [width |-> U32(0, 0), height |-> U32(0, 0), format |-> "JPEG"]

\* The 0-based position is that of a frame header marker, FF C0 or FF C2, with
\* the marker pair inside the buffer.
FrameMarkerAt(data, i) ==
    i + 1 < Len(data) /\ data[i + 1] = 255 /\ data[i + 2] \in {192, 194}

\* The walk over the marker segments as stated: from position i, a byte that
\* is not FF is stepped over, a frame header gives the dimensions when its
\* height and width (the bytes i+5 to i+8) lie in the buffer, any other marker
\* is skipped by 2 + its length, and a walk that runs off the buffer gives zero
\* dimensions.
RECURSIVE StatedWalk(_, _)
StatedWalk(data, i) ==
    IF ~(i + 1 < Len(data)) THEN ZeroJpeg
    ELSE IF data[i + 1] # 255 THEN StatedWalk(data, i + 1)
    ELSE IF FrameMarkerAt(data, i)
    THEN IF i + 8 < Len(data)
         THEN [width |-> U32(0, BigEndian16(data, i + 7)),
               height |-> U32(0, BigEndian16(data, i + 5)), format |-> "JPEG"]
         ELSE ZeroJpeg
    ELSE IF i + 3 < Len(data)
    THEN StatedWalk(data, i + 2 + BigEndian16(data, i + 2))
    ELSE ZeroJpeg

\* C25 as stated: the first frame header met gives the dimensions whenever
\* they lie in the buffer.
C25_FrameHeaderAlwaysRead ==
    Returned("parse_jpeg_dimensions") =>
        Unwrap(call.ret) =
            IF Len(call.arg) >= 2 /\ SubSeq(call.arg, 1, 2) = <<255, 216>>
            THEN StatedWalk(call.arg, 2)
            ELSE ZeroJpeg

\* The positions the walk visits from position i: a position is left only
\* while four more bytes follow it; a frame header with nine more bytes ends
\* the walk.
RECURSIVE Visited(_, _)
Visited(data, i) ==
    IF ~(i + 4 < Len(data)) THEN {i}
    ELSE IF data[i + 1] # 255 THEN {i} \cup Visited(data, i + 1)
    ELSE IF FrameMarkerAt(data, i) /\ i + 9 < Len(data) THEN {i}
    ELSE {i} \cup Visited(data, i + 2 + BigEndian16(data, i + 2))

\* C25: of a buffer that starts with FF D8 the walk from offset 2 steps over
\* the bytes that are not FF and skips every marker segment by 2 + its
\* big-endian length; at the first frame header FF C0 or FF C2 it visits at a
\* position i with i + 9 < len it returns the height at i+5 and the width at
\* i+7; it returns (0, 0) when the buffer does not start with FF D8 or no such
\* frame header is visited; the tag is JPEG.
C25_JpegWalk ==
    Returned("parse_jpeg_dimensions") =>
        Bind(IF Len(call.arg) >= 2 /\ SubSeq(call.arg, 1, 2) = <<255, 216>>
             THEN {i \in Visited(call.arg, 2) :
                      FrameMarkerAt(call.arg, i) /\ i + 9 < Len(call.arg)}
             ELSE {},
             LAMBDA frames :
                 /\ Cardinality(frames) <= 1
                 /\ Unwrap(call.ret).format = "JPEG"
                 /\ \A i \in frames :
                       /\ Unwrap(call.ret).height = U32(0, BigEndian16(call.arg, i + 5))
                       /\ Unwrap(call.ret).width = U32(0, BigEndian16(call.arg, i + 7))
                 /\ (frames = {} => Unwrap(call.ret) = ZeroJpeg))

\* A frame header behind two stepped-over bytes and a skipped segment gave
\* 640 x 480.
C25_Witness ==
    /\ Returned("parse_jpeg_dimensions")
    /\ call.arg = <<255, 216, 1, 2, 255, 224, 0, 4, 9, 9, 255, 194, 0, 17, 8, 1, 224, 2,
                    128, 0>>
    /\ Unwrap(call.ret) = [width |-> U32(0, 640), height |-> U32(0, 480), format |-> "JPEG"]

\* The big-endian u32 of the four bytes of data from the 0-based offset at.
BigEndian32(data, at) ==
    U32(data[at + 1] * 256 + data[at + 2], data[at + 3] * 256 + data[at + 4])

\* The little-endian u16 of the two bytes of data from the 0-based offset at.
LittleEndian16(data, at) == data[at + 2] * 256 + data[at + 1]

\* C26: of a buffer of at least 24 bytes the result is the big-endian u32 at
\* offset 16, that at offset 20 and the tag PNG when the first eight bytes are
\* 89 50 4E 47 0D 0A 1A 0A, and (0, 0, PNG) when they are not.
C26_PngHeader ==
    Returned("parse_png_dimensions") /\ Len(call.arg) >= 24 =>
        Unwrap(call.ret) =
            IF SubSeq(call.arg, 1, 8) = <<137, 80, 78, 71, 13, 10, 26, 10>>
            THEN [width |-> BigEndian32(call.arg, 16), height |-> BigEndian32(call.arg, 20),
                  format |-> "PNG"]
            ELSE [width |-> U32(0, 0), height |-> U32(0, 0), format |-> "PNG"]

\* A 24-byte PNG header gave 640 x 480.
C26_Witness ==
    /\ Returned("parse_png_dimensions")
    /\ Len(call.arg) = 24
    /\ Unwrap(call.ret) = [width |-> U32(0, 640), height |-> U32(0, 480), format |-> "PNG"]

\* C27: of a buffer of at least 10 bytes the result is the little-endian u16
\* at offset 6, that at offset 8 and the tag GIF when the first three bytes
\* are GIF, and (0, 0, GIF) when they are not.
C27_GifHeader ==
    Returned("parse_gif_dimensions") /\ Len(call.arg) >= 10 =>
        Unwrap(call.ret) =
            IF SubSeq(call.arg, 1, 3) = <<71, 73, 70>>
            THEN [width |-> U32(0, LittleEndian16(call.arg, 6)),
                  height |-> U32(0, LittleEndian16(call.arg, 8)), format |-> "GIF"]
            ELSE [width |-> U32(0, 0), height |-> U32(0, 0), format |-> "GIF"]

\* A 10-byte GIF header gave 320 x 240.
C27_Witness ==
    /\ Returned("parse_gif_dimensions")
    /\ Len(call.arg) = 10
    /\ Unwrap(call.ret) = [width |-> U32(0, 320), height |-> U32(0, 240), format |-> "GIF"]

\* The four header parsers, each with its tag, the fewest bytes it asks for
\* and the signature it asks for.
HeaderParsers ==
    {[fn |-> "parse_png_dimensions", format |-> "PNG", least |-> 24,
      signature |-> <<137, 80, 78, 71, 13, 10, 26, 10>>],
     [fn |-> "parse_gif_dimensions", format |-> "GIF", least |-> 10,
      signature |-> <<71, 73, 70>>],
     [fn |-> "parse_bmp_dimensions", format |-> "BMP", least |-> 26,
      signature |-> <<66, 77>>],
     [fn |-> "parse_jpeg_dimensions", format |-> "JPEG", least |-> 2,
      signature |-> <<255, 216>>]}

\* A u32 made of bytes of the buffer only.
IsU32(v) == v.hi \in 0..65535 /\ v.lo \in 0..65535

\* C28: on a buffer of any length, the empty one and those shorter than the
\* fields included, each of the four parsers returns a width and a height
\* made of bytes of the buffer, none read outside it, and its own tag; both
\* are 0 when the buffer is too short or its signature is wrong; the
\* extensions ico and webp give (0, 0) with the tags ICO and WEBP.
C28_MalformedHeadersNeverFail ==
    /\ \A p \in HeaderParsers :
          Returned(p.fn) =>
              /\ IsU32(Unwrap(call.ret).width)
              /\ IsU32(Unwrap(call.ret).height)
              /\ Unwrap(call.ret).format = p.format
              /\ (Len(call.arg) < p.least
                  \/ SubSeq(call.arg, 1, Len(p.signature)) # p.signature
                    => Unwrap(call.ret) =
                          [width |-> U32(0, 0), height |-> U32(0, 0), format |-> p.format])
    /\ Returned("ImageDimensions") =>
          /\ IsU32(Unwrap(call.ret).width)
          /\ IsU32(Unwrap(call.ret).height)
          /\ (call.arg.ext = ExtIco =>
                Unwrap(call.ret) = [width |-> U32(0, 0), height |-> U32(0, 0), format |-> "ICO"])
          /\ (call.arg.ext = ExtWebp =>
                Unwrap(call.ret) = [width |-> U32(0, 0), height |-> U32(0, 0), format |-> "WEBP"])

\* A BMP header one byte short of its height gave (0, 0, BMP).
C28_Witness ==
    /\ Returned("parse_bmp_dimensions")
    /\ Len(call.arg) = 25
    /\ SubSeq(call.arg, 1, 2) = <<66, 77>>
    /\ SubSeq(call.arg, 19, 22) = <<128, 2, 0, 0>>
    /\ Unwrap(call.ret) = [width |-> U32(0, 0), height |-> U32(0, 0), format |-> "BMP"]

\* C29: a file whose lowercased extension is png, jpg, jpeg, gif, bmp, ico or
\* webp gets an Image preview, or an Error when it cannot be opened, never a
\* Text or Binary one; of any other file at most the first 16384 bytes are
\* read, and the preview is Text with those bytes and the extension when they
\* are classified as text and are valid UTF-8, Binary with exactly those bytes
\* when not, and an Error when the file cannot be opened or read.
C29_PreviewDispatch ==
    Returned("load_file_preview") =>
        Bind(SubSeq(call.arg.data, 1,
                    IF Len(call.arg.data) < 16384 THEN Len(call.arg.data) ELSE 16384),
             LAMBDA read :
                 IF call.arg.lowered \in {ExtPng, ExtJpg, ExtJpeg, ExtGif, ExtBmp, ExtIco,
                                          ExtWebp}
                 THEN Unwrap(call.ret).kind = (IF call.arg.readable THEN "Image" ELSE "Error")
                 ELSE IF ~call.arg.readable THEN Unwrap(call.ret).kind = "Error"
                 ELSE IF is_text(read) /\ Utf8Valid(read)
                 THEN Unwrap(call.ret) =
                         [kind |-> "Text", content |-> read, extension |-> call.arg.lowered]
                 ELSE Unwrap(call.ret) = [kind |-> "Binary", bytes |-> read])

\* A binary file of 16390 bytes gave a Binary preview of its first 16384.
C29_Witness ==
    /\ Returned("load_file_preview")
    /\ call.arg.ext = <<"t">>
    /\ Len(call.arg.data) = 16390
    /\ Unwrap(call.ret).kind = "Binary"
    /\ Len(Unwrap(call.ret).bytes) = 16384

\* The outcomes of the reads update_preview makes.
PreviewReads == {[IoOk EXCEPT !.pv = p, !.desc = d] : p \in BOOLEAN, d \in BOOLEAN}

\* The entry selected, told from the entries of other directories.
SelectedHere == <<current_dir, selected_entry(St)>>

ScrollOps == {"scroll_preview_up", "scroll_preview_down"}

\* What a key event that only scrolls the preview leaves alone (the message is
\* cleared by handle_normal_mode at every key press).
BesidesScroll ==
    <<fs, current_dir, start_dir, all_entries, filtered_indices, selected, preview, mode,
      input, cursor, show_hidden, clipboard, git_statuses, git_cache_dir, running>>

\* C30: after every key event the preview is the one computed for the entry
\* now selected, and is None exactly when no entry is selected; a key event
\* that changes which entry is selected leaves the scroll offset at zero; a
\* key event that scrolls the preview changes the scroll offset only.
C30_PreviewFresh ==
    /\ [](/\ \E io \in PreviewReads : preview = PreviewOf(St, selected_entry(St), io)
          /\ (preview = PreviewNone) <=> ~IsSome(selected_entry(St)))
    /\ [][/\ SelectedHere' # SelectedHere => scroll' = 0
          /\ last'.op \in ScrollOps => BesidesScroll' = BesidesScroll]_vars

\* The quote that is open in front of the 1-based position p of a line ("" when
\* none is), by matching each quote with the next occurrence of the same one.
RECURSIVE OpenQuote(_, _, _, _)
OpenQuote(line, p, k, open) ==
    IF k >= p THEN open
    ELSE IF open = "" THEN OpenQuote(line, p, k + 1, IF line[k] \in Quotes THEN line[k] ELSE "")
    ELSE OpenQuote(line, p, k + 1, IF line[k] = open THEN "" ELSE open)

\* The extensions of the languages said to have // comments and # comments.
SlashLanguages ==
    {<<"c">>, <<"h">>, <<"c", "p", "p">>, <<"h", "p", "p">>, <<"c", "c">>, <<"r", "s">>,
     <<"g", "o">>, <<"j", "s">>, <<"t", "s">>, <<"j", "s", "x">>, <<"t", "s", "x">>,
     <<"j", "a", "v", "a">>}

HashLanguages ==
    {<<"p", "y">>, <<"s", "h">>, <<"b", "a", "s", "h">>, <<"y", "a", "m", "l">>,
     <<"y", "m", "l">>, <<"t", "o", "m", "l">>}

\* A comment starts at position p of a line, in the languages slash and hash.
StartsComment(line, p, ext, slash, hash) ==
    /\ OpenQuote(line, p, 1, "") = ""
    /\ \/ ext \in slash /\ p < Len(line) /\ line[p] = "/" /\ line[p + 1] = "/"
       \/ ext \in hash /\ line[p] = "#"

\* The texts of spans, concatenated.
RECURSIVE Concat(_)
Concat(spans) == IF spans = <<>> THEN <<>> ELSE Head(spans).content \o Concat(Tail(spans))

\* The spans of a line are those of the text in front of its first comment
\* start, none of them comment-styled, and one comment-styled span of the rest.
CommentsAsStated(line, ext, spans, slash, hash) ==
    Bind({p \in 1..Len(line) : StartsComment(line, p, ext, slash, hash)}, LAMBDA starts :
        IF starts = {} THEN \A k \in 1..Len(spans) : spans[k].style # CommentStyle
        ELSE Bind(CHOOSE p \in starts : \A q \in starts : p <= q, LAMBDA p :
                 /\ spans # <<>>
                 /\ spans[Len(spans)] = Styled(SubSeq(line, p, Len(line)), CommentStyle)
                 /\ \A k \in 1..(Len(spans) - 1) : spans[k].style # CommentStyle
                 /\ Concat(SubSeq(spans, 1, Len(spans) - 1)) = SubSeq(line, 1, p - 1)))

\* C31: outside a string, // starts a comment only for the C-family, Rust, Go
\* and JS-family extensions and # only for the Python, Shell, YAML and TOML
\* ones; a comment start flushes the pending text, makes the rest of the line
\* one comment-styled span and ends the line; for any other extension, and
\* inside a string, these characters are ordinary text.
C31_LineComments ==
    Returned("highlight_line") =>
        CommentsAsStated(call.arg.line, call.arg.ext, Unwrap(call.ret), SlashLanguages,
                         HashLanguages)

\* The position of the first occurrence of the character c at or behind the
\* 1-based position k of a line, or the last position of the line.
RECURSIVE StringEnd(_, _, _)
StringEnd(line, k, c) ==
    IF k >= Len(line) THEN Len(line)
    ELSE IF line[k] = c THEN k
    ELSE StringEnd(line, k + 1, c)

\* The strings of a line from position k on: each runs from a quote that is
\* in no string and in front of the comment to the next occurrence of the
\* same quote, or to the end of the line.
RECURSIVE StatedStrings(_, _, _)
StatedStrings(line, k, ext) ==
    IF k > Len(line) \/ CommentStart(line, k - 1, ext) THEN <<>>
    ELSE IF line[k] \in Quotes
    THEN Bind(StringEnd(line, k + 1, line[k]), LAMBDA q :
             <<SubSeq(line, k, q)>> \o StatedStrings(line, q + 1, ext))
    ELSE StatedStrings(line, k + 1, ext)

IsStringSpan(span) == span.style = StringStyle

\* C32: a quote seen outside a string opens a string; every character up to
\* and including the next occurrence of the same quote is taken literally
\* (the other quote and backslashes end and escape nothing) and the whole is
\* exactly one string-styled span; a string open at the end of the line is a
\* string-styled span too.
C32_StringSpans ==
    Returned("highlight_line") =>
        Bind(SelectSeq(Unwrap(call.ret), IsStringSpan), LAMBDA strings :
            /\ Len(strings) = Len(StatedStrings(call.arg.line, 1, call.arg.ext))
            /\ \A k \in 1..Len(strings) :
                   strings[k].content = StatedStrings(call.arg.line, 1, call.arg.ext)[k])

\* The line "\" (a backslash between double quotes) is one string span, and
\* the line "' (a single quote behind a double quote, left open) another.
C32_Witness ==
    /\ Returned("highlight_line")
    /\ call.arg.line \in {<<"\"", "\\", "\"">>, <<"\"", "'">>}
    /\ Unwrap(call.ret) = <<Styled(call.arg.line, StringStyle)>>

IsWordChar(c) == is_alphanumeric(c) \/ c = "_"

\* A span that holds a word: it starts with a word character.
IsWordSpan(span) == span.content # <<>> /\ IsWordChar(span.content[1])

\* The style said to be given to a word.
StatedWordStyle(word, keywords, types) ==
    IF word \in keywords THEN KeywordStyle
    ELSE IF word \in types THEN TypeStyle
    ELSE IF \A k \in 1..Len(word) : word[k] \in {"0", "1", "2", "3", "4", "5", "6", "7", "8", "9"}
    THEN NumberStyle
    ELSE "raw"

\* C33: every flushed word is a maximal run of alphanumeric or underscore
\* characters, never empty, and is styled as a keyword if it is in the
\* keyword list, else as a type if it is in the type list, else as a number
\* if all its characters are ASCII digits, else not at all; a word in both
\* lists (Java's void) is a keyword.
C33_WordPriority ==
    /\ Returned("colorize_word") =>
           Unwrap(call.ret) =
               Styled(call.arg.word,
                      StatedWordStyle(call.arg.word, call.arg.keywords, call.arg.types))
    /\ Returned("highlight_line") =>
           Bind(Unwrap(call.ret), LAMBDA spans :
               \A k \in 1..Len(spans) :
                   IF IsWordSpan(spans[k])
                   THEN /\ \A j \in 1..Len(spans[k].content) : IsWordChar(spans[k].content[j])
                        /\ spans[k].style =
                               StatedWordStyle(spans[k].content, get_keywords(call.arg.ext),
                                               get_types(call.arg.ext))
                        /\ k < Len(spans) => ~IsWordSpan(spans[k + 1])
                   ELSE spans[k].style = "raw" =>
                            \A j \in 1..Len(spans[k].content) : ~IsWordChar(spans[k].content[j]))

\* In a Java file the line "void int" is a keyword, a blank and a type.
C33_Witness ==
    /\ Returned("highlight_line")
    /\ call.arg.ext = <<"j", "a", "v", "a">>
    /\ call.arg.line = WordVoid \o <<" ">> \o WordInt
    /\ Unwrap(call.ret) =
           <<Styled(WordVoid, KeywordStyle), Raw(<<" ">>), Styled(WordInt, TypeStyle)>>

\* The extensions of the language tables.
TableExtensions ==
    {<<"r", "s">>, <<"p", "y">>, <<"j", "s">>, <<"t", "s">>, <<"j", "s", "x">>,
     <<"t", "s", "x">>, <<"g", "o">>, <<"c">>, <<"h">>, <<"c", "p", "p">>, <<"h", "p", "p">>,
     <<"c", "c">>, <<"j", "a", "v", "a">>, <<"s", "h">>, <<"b", "a", "s", "h">>}

\* The line of an extension outside the tables was highlighted.
UnknownHighlighted == Returned("highlight_line") /\ call.arg.ext \notin TableExtensions

\* C34 as stated: for an extension outside the language tables the keyword
\* and type sets are empty and every word of the line is a plain, unstyled
\* word.
C34_UnknownAllPlain ==
    UnknownHighlighted =>
        /\ get_keywords(call.arg.ext) = {} /\ get_types(call.arg.ext) = {}
        /\ \A k \in 1..Len(Unwrap(call.ret)) :
               IsWordSpan(Unwrap(call.ret)[k]) => Unwrap(call.ret)[k].style = "raw"

\* C34, amended: for an extension outside the language tables the keyword
\* and type sets are empty and every word of the line is a plain, unstyled
\* word, unless all its characters are ASCII digits: then it is styled as a
\* number.
C34_UnknownPlainOrNumber ==
    UnknownHighlighted =>
        /\ get_keywords(call.arg.ext) = {} /\ get_types(call.arg.ext) = {}
        /\ \A k \in 1..Len(Unwrap(call.ret)) :
               IsWordSpan(Unwrap(call.ret)[k]) =>
                   Unwrap(call.ret)[k].style =
                       (IF \A j \in 1..Len(Unwrap(call.ret)[k].content) :
                               is_ascii_digit(Unwrap(call.ret)[k].content[j])
                        THEN NumberStyle ELSE "raw")

\* In a file of extension t the line "int 42" is a plain word, a blank and a
\* number.
C34_Witness ==
    /\ UnknownHighlighted
    /\ call.arg.ext = <<"t">>
    /\ call.arg.line = WordInt \o <<" ">> \o <<"4", "2">>
    /\ Unwrap(call.ret) = <<Raw(WordInt), Raw(<<" ">>), Styled(<<"4", "2">>, NumberStyle)>>

\* The locals of highlight_line in front of every iteration of its loop and
\* behind the last.
RECURSIVE ScanStates(_, _, _, _, _)
ScanStates(sc, chars, keywords, types, ext) ==
    <<sc>> \o (IF ScanOver(sc, chars) THEN <<>>
               ELSE ScanStates(ScanStep(sc, chars, keywords, types, ext), chars, keywords,
                               types, ext))

\* C39: for every line and every extension the texts of the emitted spans,
\* concatenated in order, are the line; no emitted span is empty; at every
\* step of the scan at most one of the pending word and the pending other
\* text is non-empty.
C39_Lossless ==
    Returned("highlight_line") =>
        /\ Concat(Unwrap(call.ret)) = call.arg.line
        /\ \A k \in 1..Len(Unwrap(call.ret)) : Unwrap(call.ret)[k].content # <<>>
        /\ Bind(ScanStates(Scanner0, call.arg.line, get_keywords(call.arg.ext),
                           get_types(call.arg.ext), call.arg.ext),
                LAMBDA states :
                    \A k \in 1..Len(states) :
                        states[k].current_word = <<>> \/ states[k].current_other = <<>>)

\* The line of a blank, a word and a comment came out as three spans.
C39_Witness ==
    /\ Returned("highlight_line")
    /\ call.arg.line = <<" ", "x", "#">>
    /\ call.arg.ext = <<"p", "y">>
    /\ Unwrap(call.ret) = <<Raw(<<" ">>), Raw(<<"x">>), Styled(<<"#">>, CommentStyle)>>

\* The iterations of the while loop of parse_jpeg_dimensions from scan index
\* i, each with the index it ran at.
RECURSIVE JpegIterations(_, _)
JpegIterations(data, i) ==
    IF ~(i + 4 < Len(data)) THEN <<>>
    ELSE Bind(JpegStep(data, i), LAMBDA it :
             <<[i |-> i, reads |-> it.reads, next |-> it.next, ret |-> it.ret]>>
             \o (IF IsSome(it.next) /\ ~IsSome(it.ret)
                 THEN JpegIterations(data, Unwrap(it.next))
                 ELSE <<>>))

\* The scan of a buffer that starts with FF D8 has returned.
JpegScanned ==
    /\ Returned("parse_jpeg_dimensions")
    /\ Len(call.arg) >= 2
    /\ SubSeq(call.arg, 1, 2) = <<255, 216>>

\* C40: the marker scan ends on every buffer: every iteration runs at an
\* index with four more bytes behind it, continues at a greater index (also
\* after a segment of declared length 0 and after a byte that is not FF) and
\* reads no index at or beyond the length of the buffer, whatever length a
\* segment declares; so there are fewer iterations than bytes.
C40_JpegScanTerminates ==
    JpegScanned =>
        Bind(JpegIterations(call.arg, 2), LAMBDA its :
            /\ Len(its) < Len(call.arg)
            /\ \A k \in 1..Len(its) :
                   /\ its[k].i + 4 < Len(call.arg)
                   /\ \A r \in its[k].reads : r >= 0 /\ r < Len(call.arg)
                   /\ IsSome(its[k].next) => Unwrap(its[k].next) > its[k].i
                   /\ k < Len(its) => its[k + 1].i = Unwrap(its[k].next))

\* A byte that is not FF, a segment of declared length 0, the two bytes of
\* its length and a frame header: five iterations, the last returns 640 x 480.
C40_Witness ==
    /\ JpegScanned
    /\ call.arg = <<255, 216, 0, 255, 219, 0, 0, 255, 192, 0, 17, 8, 1, 224, 2, 128, 0>>
    /\ Len(JpegIterations(call.arg, 2)) = 5
    /\ Unwrap(call.ret).width = U32(0, 640)

\* The selection is a row of the visible list, or nothing when the list is
\* empty.
SelectionValid ==
    IF filtered_indices = <<>> THEN selected = None
    ELSE IsSome(selected) /\ Unwrap(selected) < Len(filtered_indices)

\* A cursor key moved the selection by one row, or left it where it was.
MovedByOne ==
    /\ last'.op = "move_up" =>
           selected' \in {selected, IF IsSome(selected) /\ Unwrap(selected) > 0
                                    THEN Some(Unwrap(selected) - 1) ELSE selected}
    /\ last'.op = "move_down" =>
           selected' \in {selected, IF IsSome(selected)
                                       /\ Unwrap(selected) + 1 < Len(filtered_indices)
                                    THEN Some(Unwrap(selected) + 1) ELSE selected}

\* C35: after every key event the selection is nothing iff the visible list
\* is empty, and otherwise is an index below the length of the visible list;
\* move_up and move_down change it by exactly one, without wrapping, and never
\* move it out of range.
C35_SelectionValid == []SelectionValid /\ [][MovedByOne]_vars

TextModes == {"Rename", "Path", "NewFile", "NewFolder"}

\* C36: whenever the mode is Rename, Path, NewFile or NewFolder the cursor
\* lies between 0 and the length of the input buffer, after any sequence of
\* key events, so that inserting and deleting at the cursor index inside the
\* buffer.
C36_CursorInBuffer == mode \in TextModes => (cursor >= 0 /\ cursor <= Len(input))

\* A character was inserted in front of the end of the buffer of a text mode.
C36_Witness ==
    /\ mode \in TextModes
    /\ last.op = "input_char"
    /\ cursor > 0
    /\ cursor < Len(input)

\* The fields of the App.
AppState ==
    <<fs, current_dir, start_dir, all_entries, filtered_indices, selected, preview, scroll,
      mode, input, cursor, show_hidden, message, clipboard, git_statuses, git_cache_dir,
      running>>

\* The step handles a press of the key.
Pressed(key) == keys' = keys + 1 /\ last'.key = key

\* The step handles a press of a key that is none of the characters chars and
\* not Esc.
PressedOther(chars) ==
    /\ keys' = keys + 1
    /\ last'.key.code # "Esc"
    /\ ~(last'.key.code = "Char" /\ last'.key.ch \in chars)

\* C37: from every mode but Normal one press of Esc returns the mode to
\* Normal and changes nothing in the filesystem; in Help mode every key but
\* Esc, q and ?, and in ConfirmDelete mode every key but y, Y, n, N and Esc,
\* leaves the whole state of the application as it is.
C37_EscLeavesModes ==
    [][/\ (mode # "Normal" /\ Pressed(Key("Esc"))) => (mode' = "Normal" /\ fs' = fs)
       /\ (mode = "Help" /\ PressedOther({"q", "?"})) => AppState' = AppState
       /\ (mode = "ConfirmDelete" /\ PressedOther({"y", "Y", "n", "N"})) =>
              AppState' = AppState]_vars

\* The Down key was pressed while the deletion was to be confirmed.
C37_Witness == mode = "ConfirmDelete" /\ last.key = Key("Down")

\* The key event ran paste_file, which reported a failure.
PasteFailed == last.op = "paste_file" /\ IsSome(message) /\ Unwrap(message).kind = "Paste failed"

\* C38: whenever paste_file reports "Paste failed" the destination directory
\* holds no new entry and the source is untouched (a recursive copy of a
\* directory that fails part-way leaves no partial destination): the
\* filesystem is what it was, and the entry list, not scanned again, still
\* matches it.
C38_PasteAllOrNothing ==
    [][PasteFailed' => (fs' = fs /\ all_entries' = all_entries)]_vars

====
